---- MODULE Spec2Model ----
(***************************************************************************)
(* A model of the wac translation pipeline (src/src/tr.rs, parsef.rs):     *)
(* the WAT emitter with its scope tables and reference-count insertion,    *)
(* the abstract machine that runs the emitted instructions, the top-level  *)
(* translate() pipeline and the Pratt expression parser.                   *)
(***************************************************************************)
EXTENDS Integers, Sequences, FiniteSets, TLC

(***************************************************************************)
(* Types (ir.rs).  A type is named by the Debug name of its enum variant;  *)
(* Option<Type>::None is the string None.                                  *)
(***************************************************************************)
TAG_I32 == 1
TAG_I64 == 2
TAG_F32 == 3
TAG_F64 == 4
TAG_BOOL == 5
TAG_TYPE == 6
TAG_STRING == 7
TAG_LIST == 8
TAG_ID == 9

None == "None"
Ok == "ok"

Types == {"I32", "I64", "F32", "F64", "Bool", "Type", "String", "List", "Id"}

\* Type::tag
tag(t) ==
  CASE t = "I32" -> TAG_I32
    [] t = "I64" -> TAG_I64
    [] t = "F32" -> TAG_F32
    [] t = "F64" -> TAG_F64
    [] t = "Bool" -> TAG_BOOL
    [] t = "Type" -> TAG_TYPE
    [] t = "String" -> TAG_STRING
    [] t = "List" -> TAG_LIST
    [] t = "Id" -> TAG_ID

\* Type::primitive
primitive(t) == t \in {"I32", "I64", "F32", "F64", "Bool", "Type"}

\* Type::wasm
wasm(t) ==
  CASE t = "I32" -> "i32"
    [] t = "I64" -> "i64"
    [] t = "F32" -> "f32"
    [] t = "F64" -> "f64"
    [] t \in {"Bool", "Type", "String", "List"} -> "i32"
    [] t = "Id" -> "i64"

\* WasmType::wac
wac(wt) ==
  CASE wt = "i32" -> "I32"
    [] wt = "i64" -> "I64"
    [] wt = "f32" -> "F32"
    [] wt = "f64" -> "F64"

\* translate_type: the wasm type name is the WasmType itself
translate_type(t) == wasm(t)

(***************************************************************************)
(* Emitted text.  One line of WAT is a record: the opcode, a name operand  *)
(* and an integer operand.  The wasm name "$l_<id>_<name>" of a local is   *)
(* the pair (n = name, i = id); helper locals "$rt_..." have i = -1.       *)
(***************************************************************************)
Ins(op, n, i) == [op |-> op, n |-> n, i |-> i]

\* AST nodes (ir.rs Expr): kind, name/operator/literal text, type, children,
\* and the value of a numeric literal
E(k, n, t, a) == [k |-> k, n |-> n, t |-> t, a |-> a, v |-> 0]
Lit(k, x) == [k |-> k, n |-> "", t |-> None, a |-> <<>>, v |-> x]

\* ScopeEntry: Local | Global | Constant (a constant's value is val for
\* ConstValue::I32 and the type ct for ConstValue::Type)
Entry(kind, n, i, t, val) ==
  [kind |-> kind, n |-> n, i |-> i, type |-> t, val |-> val, ct |-> None]

\* ConstValue::I32(x) / ConstValue::Type(t), with ConstValue::type_
ConstI32(x) == [type |-> "I32", x |-> x, t |-> None]
ConstType(t) == [type |-> "Type", x |-> 0, t |-> t]

NoEntry == Entry("NotFound", "", -1, None, 0)

\* FunctionType
FunctionType(ps, r) == [parameter_types |-> ps, return_type |-> r]

(***************************************************************************)
(* Data segment (Out): cursor and intern maps.                             *)
(***************************************************************************)
RESERVED_BYTES == 2048
PAGE_SIZE == 65536
DataAlign == 16

\* byte length of a literal text: texts of the model are named by their
\* content and all have the length of their name
StrLen(s) == IF s = "" THEN 0
             ELSE IF s \in {"a", "b", "c"} THEN 1
             ELSE IF s \in {"hi", "ab"} THEN 2
             ELSE IF s = "big" THEN PAGE_SIZE - RESERVED_BYTES - 24
             ELSE 17

\* variant: the cursor moves by the length, without rounding
Out_data_unaligned(st, len, what) ==
  [st EXCEPT !.data_len = len + st.data_len,
             !.data = Append(@, [ptr |-> st.data_len, len |-> len, what |-> what])]

\* Out::data: reserve with 16-byte alignment, emit one data directive
Out_data(st, len, what) ==
  LET reserve_len == ((len + DataAlign - 1) \div DataAlign) * DataAlign
      ptr == st.data_len
  IN [st EXCEPT !.data_len = reserve_len + ptr,
                !.data = Append(@, [ptr |-> ptr, len |-> len, what |-> what])]

\* variant: every call allocates
intern_str_always(st, s) ==
  LET st1 == Out_data(st, 4 + 4 + StrLen(s), s)
  IN [st1 EXCEPT !.intern_str_map = (s :> st.data_len) @@ @]

\* Out::intern_str: [refcnt i32 = 1][len i32][utf8]
intern_str(st, s) ==
  IF s \in DOMAIN st.intern_str_map THEN st
  ELSE LET st1 == Out_data(st, 4 + 4 + StrLen(s), s)
       IN [st1 EXCEPT !.intern_str_map = (s :> st.data_len) @@ @]

\* Out::intern_cstr: bytes followed by a NUL
intern_cstr(st, s) ==
  IF s \in DOMAIN st.intern_cstr_map THEN st
  ELSE LET st1 == Out_data(st, StrLen(s) + 1, s)
       IN [st1 EXCEPT !.intern_cstr_map = (s :> st.data_len) @@ @]

(***************************************************************************)
(* The translation state: the sink being written, the Out cursor, and the  *)
(* LocalScope (with its reference to the GlobalScope).  err is "ok" or the *)
(* `got` text of the first Error::Type; "panic" stands for an abort.       *)
(***************************************************************************)
EmptyMap == [x \in {} |-> 0]

GlobalScope_new(functions) ==
  [functions |-> functions, varmap |-> EmptyMap, decls |-> <<>>, err |-> Ok]

\* GlobalScope::decl_const
decl_const(g, name, cval) ==
  IF g.err # Ok THEN g
  ELSE IF name \in DOMAIN g.varmap THEN [g EXCEPT !.err = "ConflictingDefinitions"]
  ELSE [g EXCEPT !.varmap =
          (name :> [Entry("Constant", name, -1, cval.type, cval.x) EXCEPT !.ct = cval.t]) @@ @]

\* GlobalScope::decl_gvar
decl_gvar(g, name, type_) ==
  IF g.err # Ok THEN g
  ELSE IF name \in DOMAIN g.varmap THEN [g EXCEPT !.err = "ConflictingDefinitions"]
  ELSE LET info == Entry("Global", name, -1, type_, 0)
       IN [g EXCEPT !.decls = Append(@, info), !.varmap = (name :> info) @@ @]

Out_new ==
  [data_len |-> RESERVED_BYTES, data |-> <<>>,
   intern_str_map |-> EmptyMap, intern_cstr_map |-> EmptyMap]

\* LocalScope::new, with a fresh sink
LocalScope_new(g, out) ==
  [code |-> <<>>, err |-> Ok, g |-> g,
   locals |-> <<EmptyMap>>, nlabels |-> 0,
   continue_labels |-> <<>>, break_labels |-> <<>>,
   decls |-> <<>>, helper_locals |-> EmptyMap,
   data_len |-> out.data_len, data |-> out.data,
   intern_str_map |-> out.intern_str_map,
   intern_cstr_map |-> out.intern_cstr_map]

Fail(st, got) == IF st.err # Ok THEN st ELSE [st EXCEPT !.err = got]

\* Sink::writeln on the sink translate_expr was given
writeln(st, ins) == IF st.err # Ok THEN st ELSE [st EXCEPT !.code = Append(@, ins)]

\* name.starts_with("$rt_"), over the names the translator forms
starts_with_rt(name) ==
  name \in {"$rt_tmp_dup", "$rt_tmp_dup_i32", "$rt_tmp_dup_i64", "$rt_tmp_dup_f32",
            "$rt_tmp_dup_f64"}

\* LocalScope::helper
helper(st, name, type_) ==
  IF st.err # Ok THEN st
  ELSE IF ~starts_with_rt(name)
            \/ (name \in DOMAIN st.helper_locals /\ st.helper_locals[name] # type_)
       THEN Fail(st, "panic")
       ELSE [st EXCEPT !.helper_locals = (name :> type_) @@ @]

\* LocalScope::push / pop
push(st) == IF st.err # Ok THEN st ELSE [st EXCEPT !.locals = Append(@, EmptyMap)]
pop(st) == IF st.err # Ok THEN st ELSE [st EXCEPT !.locals = SubSeq(@, 1, Len(@) - 1)]

\* LocalScope::decl
decl(st, original_name, type_) ==
  IF st.err # Ok THEN st
  ELSE LET id == Len(st.decls)
           info == Entry("Local", original_name, id, type_, 0)
           top == Len(st.locals)
       IN [st EXCEPT !.decls = Append(@, info),
                     !.locals[top] = (original_name :> info) @@ @]

\* LocalScope::get: innermost map first, then the global varmap
RECURSIVE get_from(_, _, _)
get_from(st, name, depth) ==
  IF depth = 0
  THEN IF name \in DOMAIN st.g.varmap THEN st.g.varmap[name] ELSE NoEntry
  ELSE IF name \in DOMAIN st.locals[depth] THEN st.locals[depth][name]
       ELSE get_from(st, name, depth - 1)

\* variant: the global varmap is consulted first
get_global_first(st, name) ==
  IF name \in DOMAIN st.g.varmap THEN st.g.varmap[name]
  ELSE get_from(st, name, Len(st.locals))

get(st, name) == get_from(st, name, Len(st.locals))

\* LocalScope::getf
getf_found(st, name) == name \in DOMAIN st.g.functions
getf(st, name) == st.g.functions[name]

\* variant: the counter wraps after four ids
new_label_id_wrapping(st) ==
  IF st.err # Ok THEN st ELSE [st EXCEPT !.nlabels = (@ + 1) % 4]

\* LocalScope::new_label_id (the id returned is the old st.nlabels)
new_label_id(st) == IF st.err # Ok THEN st ELSE [st EXCEPT !.nlabels = @ + 1]

(***************************************************************************)
(* Reference counting and casts (tr.rs 929-1240).                          *)
(***************************************************************************)
\* variant: one helper local for every wasm type
raw_dup_one_slot(st, wasm_type) ==
  LET st1 == helper(st, "$rt_tmp_dup", wac(wasm_type))
      st2 == writeln(st1, Ins("local.tee", "$rt_tmp_dup", -1))
  IN writeln(st2, Ins("local.get", "$rt_tmp_dup", -1))

\* raw_dup: duplicate TOS through a helper local keyed by the wasm type
raw_dup(st, wasm_type) ==
  LET tmpvar == CASE wasm_type = "i32" -> "$rt_tmp_dup_i32"
                  [] wasm_type = "i64" -> "$rt_tmp_dup_i64"
                  [] wasm_type = "f32" -> "$rt_tmp_dup_f32"
                  [] wasm_type = "f64" -> "$rt_tmp_dup_f64"
      st1 == helper(st, tmpvar, wac(wasm_type))
      st2 == writeln(st1, Ins("local.tee", tmpvar, -1))
  IN writeln(st2, Ins("local.get", tmpvar, -1))

\* the runtime helper that retains / releases a value of a heap type
rc_helper(type_, what) ==
  CASE type_ = "String" -> IF what = "retain" THEN "__WAC_str_retain" ELSE "__WAC_str_release"
    [] type_ = "List" -> IF what = "retain" THEN "__WAC_list_retain" ELSE "__WAC_list_release"
    [] type_ = "Id" -> IF what = "retain" THEN "__WAC_id_retain" ELSE "__WAC_id_release"

\* retain / release of TOS share one shape
retain_or_release(st, type_, dp, what) ==
  IF primitive(type_)
  THEN IF dp = "Drop" THEN writeln(st, Ins("drop", "", 0)) ELSE st
  ELSE LET st1 == IF dp = "Keep" THEN raw_dup(st, wasm(type_)) ELSE st
       IN writeln(st1, Ins("call", rc_helper(type_, what), 0))

\* retain
retain(st, type_, dp) == retain_or_release(st, type_, dp, "retain")

\* release
release(st, type_, dp) == retain_or_release(st, type_, dp, "release")

\* release_var: get the variable, call the release helper of its type
release_var_code(scope, info) ==
  IF primitive(info.type) THEN <<>>
  ELSE << Ins(IF scope = "Local" THEN "local.get" ELSE "global.get", info.n, info.i),
          Ins("call", rc_helper(info.type, "release"), 0) >>

\* variant: the old contents are not released
release_var_skip(st, scope, info) == st

release_var(st, scope, info) ==
  IF st.err # Ok THEN st ELSE [st EXCEPT !.code = @ \o release_var_code(scope, info)]

\* cast_to_id
\* variant: the tag is or-ed in without the shift
cast_to_id_low(st, tg) ==
  LET s1 == writeln(st, Ins("i64.extend_i32_u", "", 0))
      s2 == writeln(s1, Ins("i64.const", "", tg))
  IN writeln(s2, Ins("i64.or", "", 0))

cast_to_id(st, tg) ==
  LET s1 == writeln(st, Ins("i64.extend_i32_u", "", 0))
      s2 == writeln(s1, Ins("i64.const", "", tg))
      s3 == writeln(s2, Ins("i64.const", "", 32))
      s4 == writeln(s3, Ins("i64.shl", "", 0))
  IN writeln(s4, Ins("i64.or", "", 0))

\* auto_cast
auto_cast(st, src, dst) ==
  CASE src = dst -> st
    [] src = "I32" /\ dst = "F32" -> writeln(st, Ins("f32.convert_i32_s", "", 0))
    [] src = "I32" /\ dst = "Id" -> cast_to_id(st, TAG_I32)
    [] src = "F32" /\ dst = "Id" ->
         cast_to_id(writeln(st, Ins("i32.reinterpret_f32", "", 0)), TAG_F32)
    [] src = "Bool" /\ dst = "Id" -> cast_to_id(st, TAG_BOOL)
    [] src = "String" /\ dst = "Id" -> cast_to_id(st, TAG_STRING)
    [] src = "List" /\ dst = "Id" -> cast_to_id(st, TAG_LIST)
    [] src = "Id" /\ dst = "I32" -> writeln(st, Ins("call", "__WAC_raw_id_to_i32", 0))
    [] src = "Id" /\ dst = "F32" -> writeln(st, Ins("call", "__WAC_raw_id_to_f32", 0))
    [] src = "Id" /\ dst = "Bool" -> writeln(st, Ins("call", "__WAC_raw_id_to_bool", 0))
    [] src = "Id" /\ dst = "String" -> writeln(st, Ins("call", "__WAC_raw_id_to_str", 0))
    [] src = "Id" /\ dst = "List" -> writeln(st, Ins("call", "__WAC_raw_id_to_list", 0))
    [] src # None /\ dst = None -> release(st, src, "Drop")
    [] src = None /\ dst # None -> Fail(st, "Void")
    [] OTHER -> Fail(st, src)

\* explicit_cast
explicit_cast(st, src, dst) ==
  IF src = "F32" /\ dst = "I32" THEN writeln(st, Ins("i32.trunc_f32_s", "", 0))
  ELSE auto_cast(st, src, dst)

\* variant: only (i32, f32) in this order widens to f32
common_type_one_way(a, b) ==
  CASE a = b -> [ok |-> TRUE, t |-> a]
    [] a = "I32" /\ b = "F32" -> [ok |-> TRUE, t |-> "F32"]
    [] OTHER -> [ok |-> FALSE, t |-> b]

\* common_type: the type, or the error (ok = FALSE, t = the `got` text)
common_type(a, b) ==
  CASE a = b -> [ok |-> TRUE, t |-> a]
    [] (a = "I32" /\ b = "F32") \/ (a = "F32" /\ b = "I32") -> [ok |-> TRUE, t |-> "F32"]
    [] OTHER -> [ok |-> FALSE, t |-> b]

(***************************************************************************)
(* guess_type (tr.rs 1242-1336): the type of an expression, without        *)
(* emission.  ok = FALSE carries the `got` text of the error.              *)
(***************************************************************************)
GOk(t) == [ok |-> TRUE, t |-> t]
GErr(got) == [ok |-> FALSE, t |-> got]

RECURSIVE guess_type(_, _)
guess_type(st, e) ==
  CASE e.k = "Bool" -> GOk("Bool")
    [] e.k = "Int" -> GOk("I32")
    [] e.k = "Float" -> GOk("F32")
    [] e.k = "String" -> GOk("String")
    [] e.k = "List" -> GOk("List")
    [] e.k = "GetVar" ->
         LET entry == get(st, e.n)
         IN IF entry.kind = "NotFound" THEN GErr("NotFound") ELSE GOk(entry.type)
    [] e.k = "SetVar" -> GErr("Void (setvar)")
    [] e.k = "DeclVar" -> GErr("Void (declvar)")
    [] e.k = "Block" ->
         IF Len(e.a) > 0 THEN guess_type(st, e.a[Len(e.a)]) ELSE GErr("Void (empty-block)")
    [] e.k = "FunctionCall" ->
         IF ~getf_found(st, e.n) THEN GErr("NotFound")
         ELSE IF getf(st, e.n).return_type = None
              THEN GErr("Void (void-returning-function)")
              ELSE GOk(getf(st, e.n).return_type)
    [] e.k = "If" -> guess_type(st, IF Len(e.a) > 1 THEN e.a[2] ELSE e.a[1])
    [] e.k = "While" -> GErr("Void (while)")
    [] e.k = "Binop" ->
         IF e.n \in {"Add", "Subtract", "Multiply"}
         THEN LET a == guess_type(st, e.a[1])
                  b == guess_type(st, e.a[2])
              IN IF ~a.ok THEN a ELSE IF ~b.ok THEN b ELSE common_type(a.t, b.t)
         ELSE IF e.n = "Divide" THEN GOk("F32")
         ELSE IF e.n \in {"TruncDivide", "Remainder", "BitwiseAnd", "BitwiseOr",
                          "BitwiseXor", "ShiftLeft", "ShiftRight"} THEN GOk("I32")
         ELSE GOk("Bool")
    [] e.k = "Unop" -> IF e.n = "Not" THEN GOk("Bool") ELSE guess_type(st, e.a[1])
    [] e.k = "AssertType" -> GOk(e.t)
    [] e.k = "CString" -> GOk("I32")
    [] e.k = "Asm" -> IF e.t = None THEN GErr("Void (void-asm-expr)") ELSE GOk(e.t)

\* the wasm instruction of a comparison / arithmetic / bitwise operator
BinopName(op) ==
  CASE op = "Less" -> "lt" [] op = "LessOrEqual" -> "le"
    [] op = "Greater" -> "gt" [] op = "GreaterOrEqual" -> "ge"
    [] op = "Add" -> "add" [] op = "Subtract" -> "sub" [] op = "Multiply" -> "mul"
    [] op = "BitwiseAnd" -> "and" [] op = "BitwiseOr" -> "or"
    [] op = "BitwiseXor" -> "xor" [] op = "ShiftLeft" -> "shl"
    [] op = "ShiftRight" -> "shr_u"
    [] op = "Is" -> "eq" [] op = "IsNot" -> "ne"

\* "<wasm type>.<opname>" as one opcode: the type is the name operand
TypedOp(opname, t) == Ins(opname, translate_type(t), 0)

(***************************************************************************)
(* translate_expr (tr.rs 459-927) and its operator utilities.  A `?` of    *)
(* the source is the err field: every emission is a no-op once err is set. *)
(***************************************************************************)
RECURSIVE translate_expr(_, _, _)
RECURSIVE translate_stmts(_, _, _)
RECURSIVE translate_args(_, _, _, _)
RECURSIVE translate_list_items(_, _, _)
RECURSIVE translate_pairs(_, _, _, _)
RECURSIVE translate_asm_args(_, _, _)

\* Expr::Bool / Int / Float: a literal in a typed position
translate_literal(st, etype, e) ==
  LET const(t) == writeln(st, Ins("const", t, e.v))
  IN CASE etype = None -> st
       [] e.k = "Bool" /\ etype = "Bool" -> const("i32")
       [] e.k = "Bool" /\ etype = "Id" -> cast_to_id(const("i32"), TAG_BOOL)
       [] e.k = "Int" /\ etype \in {"I32", "I64", "F32", "F64"} -> const(translate_type(etype))
       [] e.k = "Int" /\ etype = "Id" -> cast_to_id(const("i32"), TAG_I32)
       [] e.k = "Float" /\ etype \in {"F32", "F64"} -> const(translate_type(etype))
       [] e.k = "Float" /\ etype = "Id" ->
            cast_to_id(writeln(const("f32"), Ins("i32.reinterpret_f32", "", 0)), TAG_F32)
       [] OTHER -> Fail(st, e.k)

\* Expr::GetVar
translate_getvar(st, etype, e) ==
  LET entry == get(st, e.n)
  IN CASE entry.kind = "NotFound" -> Fail(st, "NotFound")
       [] entry.kind = "Constant" ->
            writeln(st, Ins("const", "i32",
                            IF entry.type = "Type" THEN tag(entry.ct) ELSE entry.val))
       [] OTHER ->
            IF etype = None THEN st
            ELSE LET getop == IF entry.kind = "Local" THEN "local.get" ELSE "global.get"
                     s1 == writeln(st, Ins(getop, entry.n, entry.i))
                     s2 == retain(s1, entry.type, "Keep")
                 IN auto_cast(s2, entry.type, etype)

\* variant: a constant is assigned like a global variable
translate_setvar_any(st, etype, e) ==
  LET entry == get(st, e.n)
  IN CASE entry.kind = "NotFound" -> Fail(st, "NotFound")
       [] etype # None -> Fail(st, "Void (setvar)")
       [] OTHER ->
            LET s1 == translate_expr(st, entry.type, e.a[1])
                s2 == release_var(s1, entry.kind, entry)
                setop == IF entry.kind = "Local" THEN "local.set" ELSE "global.set"
            IN writeln(s2, Ins(setop, entry.n, entry.i))

\* Expr::SetVar
translate_setvar(st, etype, e) ==
  LET entry == get(st, e.n)
  IN CASE entry.kind = "NotFound" -> Fail(st, "NotFound")
       [] etype # None -> Fail(st, "Void (setvar)")
       [] entry.kind = "Constant" -> Fail(st, "constant")
       [] OTHER ->
            LET s1 == translate_expr(st, entry.type, e.a[1])
                s2 == release_var(s1, entry.kind, entry)
                setop == IF entry.kind = "Local" THEN "local.set" ELSE "global.set"
            IN writeln(s2, Ins(setop, entry.n, entry.i))

\* Expr::DeclVar
translate_declvar(st, etype, e) ==
  LET g == IF e.t # None THEN GOk(e.t) ELSE guess_type(st, e.a[1])
  IN IF ~g.ok THEN Fail(st, g.t)
     ELSE LET id == Len(st.decls)
              s1 == decl(st, e.n, g.t)
          IN IF etype # None THEN Fail(s1, "Void (declvar)")
             ELSE LET s2 == translate_expr(s1, g.t, e.a[1])
                  IN writeln(s2, Ins("local.set", e.n, id))

\* Expr::FunctionCall
translate_fcall(st, etype, e) ==
  IF ~getf_found(st, e.n) THEN Fail(st, "NotFound")
  ELSE LET ftype == getf(st, e.n)
       IN IF Len(e.a) # Len(ftype.parameter_types) THEN Fail(st, "args")
          ELSE LET s1 == translate_args(st, ftype.parameter_types, e.a, 1)
                   s2 == writeln(s1, Ins("call", e.n, 0))
               IN auto_cast(s2, ftype.return_type, etype)

\* Expr::While
translate_while(st, etype, e) ==
  LET break_label == st.nlabels
      continue_label == st.nlabels + 1
      s0 == new_label_id(new_label_id(st))
      s1 == [s0 EXCEPT !.break_labels = Append(@, break_label),
                       !.continue_labels = Append(@, continue_label)]
      s2 == writeln(writeln(s1, Ins("block", "$lbl", break_label)),
                    Ins("loop", "$lbl", continue_label))
      s3 == translate_expr(s2, "Bool", e.a[1])
      s4 == writeln(writeln(s3, Ins("i32.eqz", "", 0)), Ins("br_if", "$lbl", break_label))
      s5 == translate_expr(s4, None, e.a[2])
      s6 == writeln(writeln(s5, Ins("br", "$lbl", continue_label)), Ins("))", "", 0))
  IN IF s6.err # Ok THEN s6
     ELSE [s6 EXCEPT !.break_labels = SubSeq(@, 1, Len(@) - 1),
                     !.continue_labels = SubSeq(@, 1, Len(@) - 1)]

\* op_cmp
op_cmp(st, etype, opname, left, right) ==
  LET g == guess_type(st, left)
  IN IF ~g.ok THEN Fail(st, g.t)
     ELSE LET s1 == translate_expr(st, g.t, left)
              s2 == translate_expr(s1, g.t, right)
              s3 == CASE g.t \in {"Bool", "I32", "I64"} ->
                           writeln(s2, Ins(opname, translate_type(g.t), 1))
                      [] g.t \in {"F32", "F64"} -> writeln(s2, TypedOp(opname, g.t))
                      [] OTHER -> Fail(s2, "panic")
          IN auto_cast(s3, "Bool", etype)

\* op_arith_binop
op_arith_binop(st, etype, opname, left, right) ==
  LET g == guess_type(st, left)
  IN IF ~g.ok THEN Fail(st, g.t)
     ELSE LET s1 == translate_expr(st, g.t, left)
              s2 == translate_expr(s1, g.t, right)
              s3 == IF g.t \in {"I32", "I64", "F32", "F64"}
                    THEN writeln(s2, TypedOp(opname, g.t))
                    ELSE Fail(s2, g.t)
          IN auto_cast(s3, g.t, etype)

\* op_bitwise_binop
op_bitwise_binop(st, etype, opname, left, right) ==
  LET s1 == translate_expr(st, "I32", left)
      s2 == translate_expr(s1, "I32", right)
      s3 == writeln(s2, TypedOp(opname, "I32"))
  IN auto_cast(s3, "I32", etype)

\* Binop::Is / Binop::IsNot
\* variant: the operands are not released
translate_is_no_release(st, etype, opname, left, right) ==
  LET lt == guess_type(st, left)
      rt == guess_type(st, right)
      g == IF ~lt.ok THEN lt ELSE IF ~rt.ok THEN rt ELSE common_type(lt.t, rt.t)
  IN IF ~g.ok THEN Fail(st, g.t)
     ELSE LET s1 == translate_expr(st, g.t, left)
              s2 == translate_expr(s1, g.t, right)
              s3 == writeln(s2, TypedOp(opname, g.t))
          IN auto_cast(s3, "Bool", etype)

translate_is(st, etype, opname, left, right) ==
  LET lt == guess_type(st, left)
      rt == guess_type(st, right)
      g == IF ~lt.ok THEN lt ELSE IF ~rt.ok THEN rt ELSE common_type(lt.t, rt.t)
  IN IF ~g.ok THEN Fail(st, g.t)
     ELSE LET s1 == release(translate_expr(st, g.t, left), g.t, "Keep")
              s2 == release(translate_expr(s1, g.t, right), g.t, "Keep")
              s3 == writeln(s2, TypedOp(opname, g.t))
          IN auto_cast(s3, "Bool", etype)

\* Binop::TruncDivide
translate_truncdiv(st, etype, left, right) ==
  LET gl == guess_type(st, left)
      gr == guess_type(st, right)
  IN IF ~gl.ok THEN Fail(st, gl.t)
     ELSE IF ~gr.ok THEN Fail(st, gr.t)
     ELSE LET s3 ==
                CASE gl.t = "I32" /\ gr.t = "I32" ->
                       writeln(translate_expr(translate_expr(st, "I32", left), "I32", right),
                               Ins("div_s", "i32", 0))
                  [] gl.t \in {"I32", "F32"} /\ gr.t \in {"I32", "F32"} ->
                       explicit_cast(
                         writeln(translate_expr(translate_expr(st, "F32", left), "F32", right),
                                 Ins("div", "f32", 0)),
                         "F32", "I32")
                  [] OTHER -> Fail(st, "Int")
          IN auto_cast(s3, "I32", etype)

\* Expr::Binop
translate_binop(st, etype, e) ==
  LET left == e.a[1]
      right == e.a[2]
  IN CASE e.n \in {"Less", "LessOrEqual", "Greater", "GreaterOrEqual"} ->
            op_cmp(st, etype, BinopName(e.n), left, right)
       [] e.n \in {"Is", "IsNot"} -> translate_is(st, etype, BinopName(e.n), left, right)
       [] e.n \in {"Add", "Subtract", "Multiply"} ->
            op_arith_binop(st, etype, BinopName(e.n), left, right)
       [] e.n = "Divide" ->
            auto_cast(writeln(translate_expr(translate_expr(st, "F32", left), "F32", right),
                              Ins("div", "f32", 0)),
                      "F32", etype)
       [] e.n = "TruncDivide" -> translate_truncdiv(st, etype, left, right)
       [] e.n \in {"BitwiseAnd", "BitwiseOr", "BitwiseXor", "ShiftLeft", "ShiftRight"} ->
            op_bitwise_binop(st, etype, BinopName(e.n), left, right)
       [] OTHER -> Fail(st, "panic")

\* Expr::Unop
translate_unop(st, etype, e) ==
  IF e.n = "Not"
  THEN writeln(translate_expr(st, "Bool", e.a[1]), Ins("i32.eqz", "", 0))
  ELSE LET g == guess_type(st, e.a[1])
       IN IF ~g.ok THEN Fail(st, g.t)
          ELSE IF g.t \notin {"F32", "F64", "I32", "I64"} THEN Fail(st, g.t)
          ELSE LET s1 == translate_expr(st, g.t, e.a[1])
                   s2 == CASE e.n = "Plus" -> s1
                           [] g.t \in {"F32", "F64"} -> writeln(s1, TypedOp("neg", g.t))
                           [] OTHER ->
                                writeln(writeln(s1, Ins("const", translate_type(g.t), -1)),
                                        TypedOp("mul", g.t))
               IN auto_cast(s2, g.t, etype)

translate_expr(st, etype, e) ==
  IF st.err # Ok THEN st
  ELSE
  CASE e.k \in {"Bool", "Int", "Float"} -> translate_literal(st, etype, e)
    [] e.k = "String" ->
         IF etype = None THEN st
         ELSE LET s0 == intern_str(st, e.n)
                  s1 == writeln(s0, Ins("const", "i32", s0.intern_str_map[e.n]))
                  s2 == retain(s1, "String", "Keep")
              IN auto_cast(s2, "String", etype)
    [] e.k = "List" ->
         auto_cast(translate_list_items(writeln(st, Ins("call", "__new_list", 0)), e.a, 1),
                   "List", etype)
    [] e.k = "Block" ->
         IF Len(e.a) > 0
         THEN pop(translate_expr(translate_stmts(push(st), e.a, 1), etype, e.a[Len(e.a)]))
         ELSE IF etype = None THEN st ELSE Fail(st, "Void (empty-block)")
    [] e.k = "GetVar" -> translate_getvar(st, etype, e)
    [] e.k = "SetVar" -> translate_setvar(st, etype, e)
    [] e.k = "DeclVar" -> translate_declvar(st, etype, e)
    [] e.k = "FunctionCall" -> translate_fcall(st, etype, e)
    [] e.k = "If" ->
         LET n == (Len(e.a) - 1) \div 2
             s1 == translate_pairs(st, etype, e.a, 1)
             s2 == translate_expr(s1, etype, e.a[Len(e.a)])
         IN IF s2.err # Ok THEN s2
            ELSE [s2 EXCEPT !.code = @ \o [i \in 1..n |-> Ins("end", "", 0)]]
    [] e.k = "While" -> translate_while(st, etype, e)
    [] e.k = "Binop" -> translate_binop(st, etype, e)
    [] e.k = "Unop" -> translate_unop(st, etype, e)
    [] e.k = "AssertType" -> translate_expr(st, e.t, e.a[1])
    [] e.k = "CString" ->
         CASE etype = "I32" ->
                LET s0 == intern_cstr(st, e.n)
                IN writeln(s0, Ins("const", "i32", s0.intern_cstr_map[e.n]))
           [] etype = None -> st
           [] OTHER -> Fail(st, "i32 (cstr)")
    [] e.k = "Asm" ->
         auto_cast(writeln(translate_asm_args(st, e.a, 1), Ins("asm", e.n, 0)), e.t, etype)

\* Expr::Block: every entry but the last is translated with expected type void
translate_stmts(st, exprs, i) ==
  IF i >= Len(exprs) THEN st
  ELSE translate_stmts(translate_expr(st, None, exprs[i]), exprs, i + 1)

\* Expr::FunctionCall: each argument with the type of its parameter
translate_args(st, ptypes, args, i) ==
  IF i > Len(args) THEN st
  ELSE translate_args(translate_expr(st, ptypes[i], args[i]), ptypes, args, i + 1)

\* Expr::List: dup the list pointer, the element as id, push
translate_list_items(st, exprs, i) ==
  IF i > Len(exprs) THEN st
  ELSE LET s1 == raw_dup(st, "i32")
           s2 == translate_expr(s1, "Id", exprs[i])
           s3 == writeln(s2, Ins("call", "__list_push_raw_no_retain", 0))
       IN translate_list_items(s3, exprs, i + 1)

\* Expr::If: cond, "if", "(result T)", body, "else" for every pair
translate_pairs(st, etype, a, i) ==
  IF i + 1 > Len(a) THEN st
  ELSE LET s1 == translate_expr(st, "Bool", a[i])
           s2 == writeln(s1, Ins("if", IF etype = None THEN "" ELSE translate_type(etype), 0))
           s3 == translate_expr(s2, etype, a[i + 1])
           s4 == writeln(s3, Ins("else", "", 0))
       IN translate_pairs(s4, etype, a, i + 2)

\* Expr::Asm: each argument with its guessed type
translate_asm_args(st, args, i) ==
  IF i > Len(args) THEN st
  ELSE LET g == guess_type(st, args[i])
       IN IF st.err = Ok /\ ~g.ok THEN Fail(st, g.t)
          ELSE translate_asm_args(translate_expr(st, g.t, args[i]), args, i + 1)

(***************************************************************************)
(* Sink tree: an append-only buffer whose entries are lines of text or     *)
(* child sinks spawned at the write position; get() is the depth-first     *)
(* in-order traversal.  Children are named by a positive id.               *)
(***************************************************************************)
Sink_writeln(s, ins) == Append(s, [child |-> 0, ins |-> ins])

Sink_write_all(s, lines) == s \o [i \in 1..Len(lines) |-> [child |-> 0, ins |-> lines[i]]]

Sink_spawn(s, id) == Append(s, [child |-> id, ins |-> Ins("", "", 0)])

RECURSIVE Sink_get(_, _)
Sink_get(s, children) ==
  IF s = <<>> THEN <<>>
  ELSE (IF Head(s).child = 0 THEN <<Head(s).ins>> ELSE children[Head(s).child])
       \o Sink_get(Tail(s), children)

\* index in get() of the first line of child `id`, minus one
RECURSIVE Sink_offset(_, _, _)
Sink_offset(s, children, id) ==
  IF s = <<>> \/ Head(s).child = id THEN 0
  ELSE (IF Head(s).child = 0 THEN 1 ELSE Len(children[Head(s).child]))
       + Sink_offset(Tail(s), children, id)

(***************************************************************************)
(* translate_func (tr.rs 395-457).                                         *)
(***************************************************************************)
LocalsSink == 1
LocalsInit == 2
Epilogue == 3

\* helper_locals.sort_by(name)
HelperOrder == <<"$rt_tmp_dup_f32", "$rt_tmp_dup_f64", "$rt_tmp_dup_i32", "$rt_tmp_dup_i64">>

sorted_helpers(helper_locals) ==
  SelectSeq(HelperOrder, LAMBDA n : n \in DOMAIN helper_locals)

RECURSIVE decl_params(_, _, _)
decl_params(st, parameters, i) ==
  IF i > Len(parameters) THEN st
  ELSE LET info == Entry("Local", parameters[i].n, Len(st.decls), parameters[i].t, 0)
           s1 == decl(st, parameters[i].n, parameters[i].t)
       IN decl_params(writeln(s1, Ins("param", info.n, info.i)), parameters, i + 1)

RECURSIVE concat_map(_, _, _)
concat_map(F(_), xs, i) ==
  IF i > Len(xs) THEN <<>> ELSE F(xs[i]) \o concat_map(F, xs, i + 1)

\* the helper locals' lines of locals_sink and of the epilogue
helper_local_lines(lscope) ==
  LET hs == sorted_helpers(lscope.helper_locals)
  IN [i \in 1..Len(hs) |-> Ins("local", hs[i], -1)]

helper_release_lines(lscope) ==
  concat_map(LAMBDA n : release_var_code("Local", Entry("Local", n, -1, lscope.helper_locals[n], 0)),
             sorted_helpers(lscope.helper_locals), 1)

\* the declared locals' lines: declaration and zero-init skip the parameters
decl_local_lines(lscope, nparams) ==
  [i \in 1..(Len(lscope.decls) - nparams) |->
     Ins("local", lscope.decls[i + nparams].n, lscope.decls[i + nparams].i)]

\* variant: the zero-init loop skips one declaration too many
decl_init_lines_skip_first(lscope, nparams) ==
  [i \in 1..(Len(lscope.decls) - nparams - 1) |->
     Ins("local.set_zero", lscope.decls[i + nparams + 1].n, lscope.decls[i + nparams + 1].i)]

decl_init_lines(lscope, nparams) ==
  [i \in 1..(Len(lscope.decls) - nparams) |->
     Ins("local.set_zero", lscope.decls[i + nparams].n, lscope.decls[i + nparams].i)]

\* variant: the epilogue loop skips the first declaration
decl_release_lines_skip_first(lscope) ==
  concat_map(LAMBDA info : release_var_code("Local", info), Tail(lscope.decls), 1)

decl_release_lines(lscope) ==
  concat_map(LAMBDA info : release_var_code("Local", info), lscope.decls, 1)

\* translate_func from the end of the body on: the closing parenthesis, the
\* locals and their zero initialisation, the epilogue
translate_func_close(func, header, lscope) ==
  LET exports == IF func.visibility = "Public" THEN <<Ins("export", func.name, 0)>> ELSE <<>>
      sink == Sink_writeln(
                Sink_spawn(
                  Sink_write_all(
                    Sink_spawn(Sink_spawn(Sink_write_all(<<>>, header), LocalsSink), LocalsInit),
                    lscope.code),
                  Epilogue),
                Ins(")", "", 0))
      nparams == Len(func.parameters)
      children ==
        (LocalsSink :> (helper_local_lines(lscope) \o decl_local_lines(lscope, nparams)))
        @@ (LocalsInit :> decl_init_lines(lscope, nparams))
        @@ (Epilogue :> (helper_release_lines(lscope) \o decl_release_lines(lscope)))
  IN [err |-> lscope.err, exports |-> exports, lscope |-> lscope,
      sink |-> sink, children |-> children,
      text |-> IF lscope.err = Ok THEN Sink_get(sink, children) ELSE <<>>]

\* translate_func from the header on: "(func $f_NAME", the parameters,
\* "(result T)", then the body written to the same sink after the two
\* spawned slots
translate_func_body(func, s2) ==
  translate_func_close(
    func,
    (IF func.return_type # None
     THEN writeln(s2, Ins("result", translate_type(func.return_type), 0)) ELSE s2).code,
    translate_expr([s2 EXCEPT !.code = <<>>], func.return_type, func.body))

translate_func(out, gscope, func) ==
  translate_func_body(
    func,
    decl_params(writeln(LocalScope_new(gscope, out), Ins("func", func.name, 0)),
                func.parameters, 1))

(***************************************************************************)
(* The abstract machine that runs emitted text.  A value is a 64-bit word  *)
(* as its two 32-bit halves (an i32 has hi = 0).  rc is the refcnt prefix  *)
(* of every heap object, by pointer.  The runtime helpers of the prelude   *)
(* follow their contract: retain increments, release decrements, both      *)
(* ignore the null pointer; the id variants act on the payload when the    *)
(* tag is a heap tag.                                                      *)
(***************************************************************************)
V(x) == [hi |-> 0, lo |-> x]

RECURSIVE BitOr(_, _)
BitOr(a, b) ==
  IF a = 0 THEN b ELSE IF b = 0 THEN a
  ELSE (IF a % 2 = 1 \/ b % 2 = 1 THEN 1 ELSE 0) + 2 * BitOr(a \div 2, b \div 2)

Key(n, i) == <<n, i>>

\* index of the "else" that closes the then-branch starting at i
RECURSIVE MatchElse(_, _, _)
MatchElse(code, i, depth) ==
  IF i > Len(code) THEN i
  ELSE CASE code[i].op = "if" -> MatchElse(code, i + 1, depth + 1)
         [] code[i].op = "end" -> MatchElse(code, i + 1, depth - 1)
         [] code[i].op = "else" /\ depth = 0 -> i
         [] OTHER -> MatchElse(code, i + 1, depth)

\* index of the "end" that closes the else-branch starting at i
RECURSIVE MatchEnd(_, _, _)
MatchEnd(code, i, depth) ==
  IF i > Len(code) THEN i
  ELSE CASE code[i].op = "if" -> MatchEnd(code, i + 1, depth + 1)
         [] code[i].op = "end" /\ depth = 0 -> i
         [] code[i].op = "end" -> MatchEnd(code, i + 1, depth - 1)
         [] OTHER -> MatchEnd(code, i + 1, depth)

\* index of the "))" that closes the block whose body contains i
RECURSIVE MatchBlockEnd(_, _, _)
MatchBlockEnd(code, i, depth) ==
  IF i > Len(code) THEN i
  ELSE CASE code[i].op = "block" -> MatchBlockEnd(code, i + 1, depth + 1)
         [] code[i].op = "))" /\ depth = 0 -> i
         [] code[i].op = "))" -> MatchBlockEnd(code, i + 1, depth - 1)
         [] OTHER -> MatchBlockEnd(code, i + 1, depth)

\* index of the "loop" line carrying label l
LoopStart(code, l) == CHOOSE i \in 1..Len(code) : code[i].op = "loop" /\ code[i].i = l

IsHeapTag(tg) == tg \in {TAG_STRING, TAG_LIST}

\* refcnt update through a pointer; null and unknown pointers are ignored
rc_add(rc, ptr, d) == IF ptr \in DOMAIN rc THEN [rc EXCEPT ![ptr] = @ + d] ELSE rc

\* refcnt update through a value of the given type
rc_add_typed(rc, type_, v, d) ==
  CASE type_ \in {"String", "List"} -> rc_add(rc, v.lo, d)
    [] type_ = "Id" -> IF IsHeapTag(v.hi) THEN rc_add(rc, v.lo, d) ELSE rc
    [] OTHER -> rc

Pop(stack, k) == SubSeq(stack, 1, Len(stack) - k)
Top(stack) == stack[Len(stack)]
Top2(stack) == stack[Len(stack) - 1]

LocalOf(m, k) == IF k \in DOMAIN m.locals THEN m.locals[k] ELSE V(0)
GlobalOf(m, n) == IF n \in DOMAIN m.globals THEN m.globals[n] ELSE V(0)

Bump(m) == [m EXCEPT !.pc = @ + 1]

\* a machine about to run `code` from its first line
Machine(code, fns, rc, locals, globals, fuel, epi_first, epi_last) ==
  [code |-> code, pc |-> 1, stack |-> <<>>, locals |-> locals, globals |-> globals,
   rc |-> rc, fns |-> fns, fuel |-> fuel, status |-> IF code = <<>> THEN "done" ELSE "run",
   epi_first |-> epi_first, epi_last |-> epi_last, epi_hits |-> 0]

Trap(m) == [m EXCEPT !.status = "trap"]

\* the callee owns its parameter references and releases them in its epilogue
RECURSIVE consume_args(_, _, _, _)
consume_args(rc, ptypes, args, i) ==
  IF i > Len(ptypes) THEN rc
  ELSE consume_args(rc_add_typed(rc, ptypes[i], args[i], -1), ptypes, args, i + 1)

\* what a callee may return: a fresh reference to a heap object it was
\* given or to another object of the heap; any truth value while fuel lasts
call_results(m, ftype, args, heap_obj) ==
  LET given == {args[i].lo : i \in {j \in 1..Len(args) : ftype.parameter_types[j] \in {"String", "List"}}}
      objs == (given \cup {heap_obj}) \cap DOMAIN m.rc
  IN CASE ftype.return_type = None -> {<<>>}
       [] ftype.return_type = "Bool" -> {<<V(0)>>} \cup (IF m.fuel > 0 THEN {<<V(1)>>} ELSE {})
       [] ftype.return_type \in {"String", "List"} -> {<<V(o)>> : o \in objs}
       [] ftype.return_type = "Id" ->
            {<<[hi |-> TAG_STRING, lo |-> o]>> : o \in objs} \cup {<<[hi |-> TAG_I32, lo |-> 0]>>}
       [] OTHER -> {<<V(0)>>}

\* "call $f_NAME" of a function of the module
exec_fcall(m, name, heap_obj) ==
  LET ftype == m.fns[name]
      n == Len(ftype.parameter_types)
      args == SubSeq(m.stack, Len(m.stack) - n + 1, Len(m.stack))
      rc1 == consume_args(m.rc, ftype.parameter_types, args, 1)
  IN { [m EXCEPT !.pc = @ + 1,
                 !.stack = Pop(m.stack, n) \o r,
                 !.rc = IF r = <<>> THEN rc1
                        ELSE rc_add_typed(rc1, ftype.return_type, r[1], 1),
                 !.fuel = IF ftype.return_type = "Bool" /\ r = <<V(1)>> THEN @ - 1 ELSE @]
       : r \in call_results(m, ftype, args, heap_obj) }

\* "call $f___WAC_..." of a runtime helper of the prelude
exec_helper(m, name) ==
  LET v == Top(m.stack)
      typed(t, d) == {[m EXCEPT !.pc = @ + 1, !.stack = Pop(m.stack, 1),
                                !.rc = rc_add_typed(m.rc, t, v, d)]}
      unbox(tg) == IF v.hi = tg
                   THEN {[m EXCEPT !.pc = @ + 1, !.stack = Append(Pop(m.stack, 1), V(v.lo))]}
                   ELSE {Trap(m)}
  IN CASE name = "__WAC_str_retain" -> typed("String", 1)
       [] name = "__WAC_list_retain" -> typed("List", 1)
       [] name = "__WAC_id_retain" -> typed("Id", 1)
       [] name = "__WAC_str_release" -> typed("String", -1)
       [] name = "__WAC_list_release" -> typed("List", -1)
       [] name = "__WAC_id_release" -> typed("Id", -1)
       [] name = "__WAC_raw_id_to_i32" -> unbox(TAG_I32)
       [] name = "__WAC_raw_id_to_f32" -> unbox(TAG_F32)
       [] name = "__WAC_raw_id_to_bool" -> unbox(TAG_BOOL)
       [] name = "__WAC_raw_id_to_str" -> unbox(TAG_STRING)
       [] name = "__WAC_raw_id_to_list" -> unbox(TAG_LIST)
       [] OTHER -> {Trap(m)}

RuntimeHelpers ==
  {"__WAC_str_retain", "__WAC_list_retain", "__WAC_id_retain",
   "__WAC_str_release", "__WAC_list_release", "__WAC_id_release",
   "__WAC_raw_id_to_i32", "__WAC_raw_id_to_f32", "__WAC_raw_id_to_bool",
   "__WAC_raw_id_to_str", "__WAC_raw_id_to_list"}

\* one instruction
exec(m, heap_obj) ==
  LET ins == m.code[m.pc]
      k == Key(ins.n, ins.i)
      pushv(v) == {[m EXCEPT !.pc = @ + 1, !.stack = Append(@, v)]}
      goto(i) == [m EXCEPT !.pc = i, !.stack = Pop(m.stack, 1)]
  IN CASE ins.op \in {"func", "param", "result", "local", ")", "block", "loop", "))",
                      "end", "i64.extend_i32_u", "i32.reinterpret_f32"} -> {Bump(m)}
       [] ins.op = "local.set_zero" ->
            {[m EXCEPT !.pc = @ + 1, !.locals = (k :> V(0)) @@ @]}
       [] ins.op \in {"const", "i64.const"} -> pushv(V(ins.i))
       [] ins.op = "local.get" -> pushv(LocalOf(m, k))
       [] ins.op = "global.get" -> pushv(GlobalOf(m, ins.n))
       [] ins.op = "local.set" ->
            {[m EXCEPT !.pc = @ + 1, !.stack = Pop(@, 1), !.locals = (k :> Top(m.stack)) @@ @]}
       [] ins.op = "local.tee" ->
            {[m EXCEPT !.pc = @ + 1, !.locals = (k :> Top(m.stack)) @@ @]}
       [] ins.op = "global.set" ->
            {[m EXCEPT !.pc = @ + 1, !.stack = Pop(@, 1),
                       !.globals = (ins.n :> Top(m.stack)) @@ @]}
       [] ins.op = "drop" -> {[m EXCEPT !.pc = @ + 1, !.stack = Pop(@, 1)]}
       [] ins.op = "i32.eqz" ->
            {[m EXCEPT !.pc = @ + 1,
                       !.stack = Append(Pop(@, 1), V(IF Top(m.stack).lo = 0 THEN 1 ELSE 0))]}
       [] ins.op \in {"eq", "ne"} ->
            {[m EXCEPT !.pc = @ + 1,
                       !.stack = Append(Pop(@, 2),
                                        V(IF (Top2(m.stack) = Top(m.stack)) = (ins.op = "eq")
                                          THEN 1 ELSE 0))]}
       [] ins.op \in {"i32.ge_s", "i32.gt_s"} ->
            {[m EXCEPT !.pc = @ + 1,
                       !.stack = Append(Pop(@, 2),
                                        V(IF Top2(m.stack).lo > Top(m.stack).lo
                                             \/ (ins.op = "i32.ge_s" /\ Top2(m.stack) = Top(m.stack))
                                          THEN 1 ELSE 0))]}
       [] ins.op = "i32.add" ->
            \* the addresses added here stay far below 2^31: no wrap
            {[m EXCEPT !.pc = @ + 1,
                       !.stack = Append(Pop(@, 2), V(Top2(m.stack).lo + Top(m.stack).lo))]}
       [] ins.op = "i32.store" ->
            {[m EXCEPT !.pc = @ + 1, !.stack = Pop(@, 2),
                       !.mem = (Top2(m.stack).lo :> Top(m.stack).lo) @@ @]}
       [] ins.op = "i64.shl" ->
            IF Top(m.stack).lo = 32
            THEN {[m EXCEPT !.pc = @ + 1,
                            !.stack = Append(Pop(@, 2), [hi |-> Top2(m.stack).lo, lo |-> 0])]}
            ELSE {Trap(m)}
       [] ins.op = "i64.or" ->
            {[m EXCEPT !.pc = @ + 1,
                       !.stack = Append(Pop(@, 2),
                                        [hi |-> BitOr(Top2(m.stack).hi, Top(m.stack).hi),
                                         lo |-> BitOr(Top2(m.stack).lo, Top(m.stack).lo)])]}
       [] ins.op = "if" ->
            {goto(IF Top(m.stack).lo # 0 THEN m.pc + 1 ELSE MatchElse(m.code, m.pc + 1, 0) + 1)}
       [] ins.op = "else" -> {[m EXCEPT !.pc = MatchEnd(m.code, m.pc + 1, 0)]}
       [] ins.op = "br_if" ->
            {goto(IF Top(m.stack).lo # 0 THEN MatchBlockEnd(m.code, m.pc + 1, 0) + 1
                  ELSE m.pc + 1)}
       [] ins.op = "br" -> {[m EXCEPT !.pc = LoopStart(m.code, ins.i)]}
       [] ins.op = "call" ->
            IF ins.n \in RuntimeHelpers THEN exec_helper(m, ins.n)
            ELSE IF ins.n \in DOMAIN m.fns THEN exec_fcall(m, ins.n, heap_obj)
            ELSE {Trap(m)}
       [] OTHER -> {Trap(m)}

\* the step relation: one instruction, then the bookkeeping of the run
step(m, heap_obj) ==
  { [m2 EXCEPT !.status = IF m2.status = "trap" THEN "trap"
                          ELSE IF m2.pc > Len(m2.code) THEN "done" ELSE "run",
               !.epi_hits = IF m.pc >= m.epi_first /\ m.pc <= m.epi_last THEN @ + 1 ELSE @]
    : m2 \in exec(m, heap_obj) }

(***************************************************************************)
(* State.                                                                  *)
(*   fn, phase, tr, entry, m : one function through translate_func and     *)
(*   then through a run of its emitted text on the machine.                *)
(***************************************************************************)
VARIABLES fn, phase, tr, entry, m

vars == <<fn, phase, tr, entry, m>>

NullTr == [err |-> "none"]
NullM == [status |-> "none"]
NullEntry == [args |-> <<>>]

(***************************************************************************)
(* The functions translated: one str and one i32 parameter, a body of at   *)
(* most MaxStmts statements over string literals, variable reads, decl,    *)
(* set, blocks, if, while and calls, and an optional final value.          *)
(***************************************************************************)
MaxStmts == 2
MaxTrue == 2

Block(a) == E("Block", "", None, a)
GetVar(n) == E("GetVar", n, None, <<>>)
SetVar(n, e) == E("SetVar", n, None, <<e>>)
DeclVar(n, t, e) == E("DeclVar", n, t, <<e>>)
Call(n, a) == E("FunctionCall", n, None, a)
If(c, b, o) == E("If", "", None, <<c, b, o>>)
While(c, b) == E("While", "", None, <<c, b>>)
Str(x) == E("String", x, None, <<>>)

\* the global scope the function is translated in: an imported condition c,
\* f(str) str, g(str), and one global variable G of type str
FuncFunctions ==
  ("c" :> FunctionType(<<>>, "Bool")) @@ ("f" :> FunctionType(<<"String">>, "String"))
  @@ ("g" :> FunctionType(<<"String">>, None))

FuncGscope == decl_gvar(GlobalScope_new(FuncFunctions), "G", "String")

SimpleStmts ==
  { DeclVar("x", "String", Str("a")), DeclVar("x", "String", GetVar("p")),
    DeclVar("y", "Id", GetVar("p")), DeclVar("k", "I32", Lit("Int", 1)),
    SetVar("x", Str("a")), SetVar("x", GetVar("G")), SetVar("p", GetVar("x")),
    Call("g", <<GetVar("x")>>) }

LoopStmts ==
  { While(Call("c", <<>>), Block(<<DeclVar("x", "String", Str("a"))>>)),
    While(Call("c", <<>>), Block(<<SetVar("x", Call("f", <<GetVar("x")>>))>>)) }

IfStmts ==
  { If(Call("c", <<>>), Block(<<DeclVar("x", "String", GetVar("p"))>>), Block(<<>>)),
    If(Call("c", <<>>), Block(<<SetVar("x", Str("a"))>>), Block(<<SetVar("x", GetVar("p"))>>)) }

Stmts == SimpleStmts \cup LoopStmts \cup IfStmts

FinalExprs ==
  { GetVar("p"), GetVar("x"),
    If(Call("c", <<>>), Block(<<Str("b")>>), Block(<<GetVar("p")>>)) }

StmtSeqs == UNION { [1..n -> Stmts] : n \in 0..MaxStmts }

FuncParams == << [n |-> "p", t |-> "String"], [n |-> "n", t |-> "I32"] >>

Function(ret, body) ==
  [name |-> "main", visibility |-> "Public", parameters |-> FuncParams,
   return_type |-> ret, body |-> body]

\* the heap at entry: the interned literals (refcnt 1 in the data segment)
\* and one object allocated at run time, owned by the global G
HeapObj == RESERVED_BYTES + RESERVED_BYTES

EntryRc(lscope) ==
  [o \in {lscope.intern_str_map[x] : x \in DOMAIN lscope.intern_str_map} \cup {HeapObj} |-> 1]

FuncInit ==
  /\ \E ss \in StmtSeqs :
       \/ fn = Function(None, Block(ss))
       \/ \E e \in FinalExprs : fn = Function("String", Block(Append(ss, e)))
  /\ phase = "start"
  /\ tr = NullTr
  /\ entry = NullEntry
  /\ m = NullM

\* translate_func on the function
FuncTranslate ==
  /\ phase = "start"
  /\ tr' = translate_func(Out_new, FuncGscope, fn)
  /\ phase' = IF tr'.err = Ok THEN "translated" ELSE "failed"
  /\ UNCHANGED <<fn, entry, m>>

\* the caller pushes the arguments, handing one reference over with each
\* heap argument, and calls
FuncEnter ==
  /\ phase = "translated"
  /\ \E o \in DOMAIN EntryRc(tr.lscope) :
       LET rc0 == EntryRc(tr.lscope)
           text == tr.text
           epi == Sink_offset(tr.sink, tr.children, Epilogue)
       IN /\ entry' = [args |-> <<V(o), V(0)>>, rc0 |-> rc0]
          /\ m' = Machine(text, FuncFunctions, rc_add(rc0, o, 1),
                          (Key("p", 0) :> V(o)) @@ (Key("n", 1) :> V(0)),
                          ("G" :> V(HeapObj)), MaxTrue,
                          epi + 1, epi + Len(tr.children[Epilogue]))
  /\ phase' = "running"
  /\ UNCHANGED <<fn, tr>>

\* one instruction of the emitted text
FuncStep ==
  /\ phase = "running"
  /\ m.status = "run"
  /\ m' \in step(m, HeapObj)
  /\ UNCHANGED <<fn, phase, tr, entry>>

FuncNext == FuncTranslate \/ FuncEnter \/ FuncStep

SpecFunc == FuncInit /\ [][FuncNext]_vars

IsHeap(t) == t \in {"String", "List", "Id"}

FuncDone == phase = "running" /\ m.status = "done"

\* C1: at the end of the epilogue every object's count is what it was
\* before the call, plus one on the returned object
C1_RefcountBalanced ==
  FuncDone =>
    \A o \in DOMAIN m.rc :
      m.rc[o] = entry.rc0[o]
                + (IF fn.return_type # None /\ IsHeap(fn.return_type) /\ Top(m.stack).lo = o
                   THEN 1 ELSE 0)

\* the function has been translated and not yet entered (the translation
\* does not change afterwards)
FuncTranslated == phase = "translated"

Count(seq, P(_)) == Cardinality({i \in 1..Len(seq) : P(seq[i])})

\* the lines of the three slots and of the body in the assembled text
SlotLines(id) == tr.children[id]
SlotOffset(id) == Sink_offset(tr.sink, tr.children, id)
NParams == Len(fn.parameters)

\* release of local (n, i) at position j of a sequence of lines
IsReleaseAt(lines, j, d) ==
  /\ j + 1 <= Len(lines)
  /\ lines[j] = Ins("local.get", d.n, d.i)
  /\ lines[j + 1] = Ins("call", rc_helper(d.type, "release"), 0)

UserLocals == {i \in 1..Len(tr.lscope.decls) : i > NParams}
HelperLocals == DOMAIN tr.lscope.helper_locals

DeclaredOnce(n, i) == Count(SlotLines(LocalsSink), LAMBDA l : l = Ins("local", n, i)) = 1
ZeroedTimes(n, i) == Count(SlotLines(LocalsInit), LAMBDA l : l = Ins("local.set_zero", n, i))

\* both slots lie before the first line of the body, in this order
SlotsPrecedeBody ==
  /\ SlotOffset(LocalsSink) + Len(SlotLines(LocalsSink)) = SlotOffset(LocalsInit)
  /\ SubSeq(tr.text, SlotOffset(LocalsSink) + 1, SlotOffset(LocalsInit)) = SlotLines(LocalsSink)
  /\ SubSeq(tr.text, SlotOffset(LocalsInit) + 1,
            SlotOffset(LocalsInit) + Len(SlotLines(LocalsInit))) = SlotLines(LocalsInit)
  /\ SubSeq(tr.text, SlotOffset(LocalsInit) + Len(SlotLines(LocalsInit)) + 1,
            SlotOffset(Epilogue)) = tr.lscope.code
  /\ \A j \in 1..Len(tr.lscope.code) :
       tr.lscope.code[j].op \notin {"local", "local.set_zero"}

\* C3 as stated: user locals and helper temporaries alike are declared once
\* and zeroed exactly once before the body
C3_EveryLocalDeclaredAndZeroedOnce ==
  FuncTranslated =>
    /\ SlotsPrecedeBody
    /\ \A i \in UserLocals :
         /\ DeclaredOnce(tr.lscope.decls[i].n, tr.lscope.decls[i].i)
         /\ ZeroedTimes(tr.lscope.decls[i].n, tr.lscope.decls[i].i) = 1
    /\ \A h \in HelperLocals : DeclaredOnce(h, -1) /\ ZeroedTimes(h, -1) = 1

\* C3 amended: every user-declared local other than a parameter is declared
\* once in the locals slot and zeroed exactly once in the zero-init slot,
\* both before the body; a helper temporary is declared once in the locals
\* slot and gets no line in the zero-init slot
C3_UserLocalsZeroedHelpersOnlyDeclared ==
  FuncTranslated =>
    /\ SlotsPrecedeBody
    /\ \A i \in UserLocals :
         /\ DeclaredOnce(tr.lscope.decls[i].n, tr.lscope.decls[i].i)
         /\ ZeroedTimes(tr.lscope.decls[i].n, tr.lscope.decls[i].i) = 1
    /\ \A h \in HelperLocals : DeclaredOnce(h, -1) /\ ZeroedTimes(h, -1) = 0
    /\ Len(SlotLines(LocalsSink)) = Cardinality(UserLocals) + Cardinality(HelperLocals)
    /\ Len(SlotLines(LocalsInit)) = Cardinality(UserLocals)

\* a translated function with two user locals and a helper temporary
C3_Witness ==
  /\ FuncTranslated
  /\ Cardinality(UserLocals) >= 2
  /\ "$rt_tmp_dup_i32" \in HelperLocals

(***************************************************************************)
(* One expression through translate_expr with an expected type, under a    *)
(* scope with one local of every type, then the emitted code on the        *)
(* machine.                                                                *)
(***************************************************************************)
Binop(op, l, r) == E("Binop", op, None, <<l, r>>)
Asm(args, t, code) == E("Asm", code, t, args)

\* the nine (global $rt_tag_T i32 (i32.const TAG)) lines of translate
rt_tag_globals ==
  << Ins("global", "$rt_tag_i32", TAG_I32), Ins("global", "$rt_tag_i64", TAG_I64),
     Ins("global", "$rt_tag_f32", TAG_F32), Ins("global", "$rt_tag_f64", TAG_F64),
     Ins("global", "$rt_tag_bool", TAG_BOOL), Ins("global", "$rt_tag_type", TAG_TYPE),
     Ins("global", "$rt_tag_str", TAG_STRING), Ins("global", "$rt_tag_list", TAG_LIST),
     Ins("global", "$rt_tag_id", TAG_ID) >>

\* the nine type constants translate declares, in its order
TypeConstants ==
  << [n |-> "i32", t |-> "I32"], [n |-> "i64", t |-> "I64"], [n |-> "f32", t |-> "F32"],
     [n |-> "f64", t |-> "F64"], [n |-> "bool", t |-> "Bool"], [n |-> "type", t |-> "Type"],
     [n |-> "str", t |-> "String"], [n |-> "list", t |-> "List"], [n |-> "id", t |-> "Id"] >>

RECURSIVE decl_type_consts(_, _)
decl_type_consts(g, i) ==
  IF i > Len(TypeConstants) THEN g
  ELSE decl_type_consts(decl_const(g, TypeConstants[i].n, ConstType(TypeConstants[i].t)), i + 1)

\* the name of the type constant and of the $rt_tag global of a type
TypeConstName(t) == (CHOOSE i \in 1..Len(TypeConstants) : TypeConstants[i].t = t)
RtTagGlobal(t) == rt_tag_globals[TypeConstName(t)].n

ExprFunctions ==
  FuncFunctions @@ ("h" :> FunctionType(<<>>, "I32"))

ExprGscope ==
  decl_gvar(decl_const(decl_type_consts(GlobalScope_new(ExprFunctions), 1), "K", ConstI32(7)),
            "G", "String")

\* one local of every type
ExprLocals ==
  << [n |-> "xb", t |-> "Bool"], [n |-> "xi", t |-> "I32"], [n |-> "xl", t |-> "I64"],
     [n |-> "xf", t |-> "F32"], [n |-> "xd", t |-> "F64"], [n |-> "xt", t |-> "Type"],
     [n |-> "xs", t |-> "String"], [n |-> "xL", t |-> "List"], [n |-> "xa", t |-> "Id"] >>

LocalOfType(t) == ExprLocals[CHOOSE i \in 1..Len(ExprLocals) : ExprLocals[i].t = t].n

ExprScope ==
  [decl_params(LocalScope_new(ExprGscope, Out_new), ExprLocals, 1) EXCEPT !.code = <<>>]

\* expressions that produce no value
VoidExprs ==
  { Block(<<>>), SetVar("xi", Lit("Int", 1)), DeclVar("z", "I32", Lit("Int", 1)),
    While(Lit("Bool", 0), Block(<<>>)), Call("g", <<GetVar("xs")>>),
    Asm(<<>>, None, "nop") }

ArithOps == {"Add", "Subtract", "Multiply", "Remainder"}
ArithOperands == { Lit("Int", 1), Lit("Float", 2), GetVar("xi"), GetVar("xf") }
ArithExprs == { Binop(op, l, r) : op \in ArithOps, l \in ArithOperands, r \in ArithOperands }

\* a read of the local of each type, of each type constant, and some
\* other value expressions
ValueExprs ==
  { GetVar(LocalOfType(t)) : t \in Types }
  \cup { GetVar(TypeConstants[i].n) : i \in 1..Len(TypeConstants) }
  \cup { GetVar("K"), GetVar("G"), Str("a"), Lit("Bool", 1), Lit("Int", 3), Lit("Float", 3),
         Call("h", <<>>), Call("f", <<GetVar("xs")>>),
         Block(<<DeclVar("z", "String", GetVar("xs")), GetVar("z")>>),
         If(GetVar("xb"), Block(<<GetVar("xi")>>), Block(<<Lit("Int", 0)>>)) }

ExprInputs ==
  { [expr |-> e, etype |-> t] :
      e \in VoidExprs \cup ArithExprs \cup ValueExprs, t \in Types \cup {None} }

\* what a local may hold when the code runs
ExprPayloads == {0, 1, HeapObj}

ExprInit ==
  /\ fn \in ExprInputs
  /\ phase = "start"
  /\ tr = NullTr
  /\ entry = NullEntry
  /\ m = NullM

\* translate_expr on the expression with the expected type
ExprTranslate ==
  /\ phase = "start"
  /\ LET st == translate_expr(ExprScope, fn.etype, fn.expr)
     IN /\ tr' = [err |-> st.err, lscope |-> st, text |-> st.code]
        /\ phase' = IF st.err = Ok THEN "translated" ELSE "failed"
  /\ UNCHANGED <<fn, entry, m>>

\* the emitted code is entered with every local holding the same payload
ExprEnter ==
  /\ phase = "translated"
  /\ \E x \in ExprPayloads :
       LET rc0 == EntryRc(tr.lscope)
           locals == [k \in {Key(ExprScope.decls[i].n, ExprScope.decls[i].i) :
                               i \in 1..Len(ExprScope.decls)} |-> V(x)]
           globals == [n \in {rt_tag_globals[i].n : i \in 1..Len(rt_tag_globals)} |->
                         V(rt_tag_globals[CHOOSE i \in 1..Len(rt_tag_globals) :
                                            rt_tag_globals[i].n = n].i)]
                      @@ ("G" :> V(HeapObj))
       IN /\ entry' = [args |-> <<V(x)>>, rc0 |-> rc0]
          /\ m' = Machine(tr.text, ExprFunctions, rc0, locals, globals, MaxTrue, 0, -1)
  /\ phase' = "running"
  /\ UNCHANGED <<fn, tr>>

\* one instruction of the emitted code
ExprStep ==
  /\ phase = "running"
  /\ m.status = "run"
  /\ m' \in step(m, HeapObj)
  /\ UNCHANGED <<fn, phase, tr, entry>>

ExprNext == ExprTranslate \/ ExprEnter \/ ExprStep

SpecExpr == ExprInit /\ [][ExprNext]_vars

ExprTranslated == phase \in {"translated", "failed"}

IsVoidExpr(e) ==
  \/ e.k \in {"SetVar", "DeclVar", "While"}
  \/ e.k = "Block" /\ e.a = <<>>
  \/ e.k = "FunctionCall" /\ e.n \in DOMAIN ExprFunctions
       /\ ExprFunctions[e.n].return_type = None
  \/ e.k = "Asm" /\ e.t = None

IsVoidError(err) ==
  err \in {"Void", "Void (setvar)", "Void (declvar)", "Void (empty-block)"}

\* C4: with an expected value type, an expression that produces no value
\* (empty block, set, decl, while, call to a void function, void $asm)
\* fails with a TypeError reporting Void
C4_VoidExprInValuePositionFails ==
  (ExprTranslated /\ IsVoidExpr(fn.expr) /\ fn.etype # None) => IsVoidError(tr.err)

ExprDone == phase = "running" /\ m.status = "done"

\* the guessed types of the operands of an arithmetic expression are one
\* i32 and one f32
MixedArith(e) ==
  /\ e.k = "Binop" /\ e.n \in ArithOps
  /\ guess_type(ExprScope, e.a[1]).ok /\ guess_type(ExprScope, e.a[2]).ok
  /\ {guess_type(ExprScope, e.a[1]).t, guess_type(ExprScope, e.a[2]).t} = {"I32", "F32"}

\* C8: + - * % with one i32 and one f32 operand, in either order, translate
\* successfully to the f32 instruction, the i32 side converted to f32
C8_MixedArithmeticIsF32 ==
  (ExprTranslated /\ MixedArith(fn.expr) /\ fn.etype = "F32") =>
    /\ tr.err = Ok
    /\ tr.text[Len(tr.text)].n = "f32"
    /\ \A i \in 1..Len(tr.text) : tr.text[i].op \in {"const", "local.get"} =>
         \/ tr.text[i].n = "f32"
         \/ tr.text[i] = Ins("local.get", "xf", ExprScope.decls[4].i)
         \/ i < Len(tr.text) /\ tr.text[i + 1] = Ins("f32.convert_i32_s", "", 0)

\* the value of the `type` constant named after t, as GetVar emits it
TypeConstValue(t) ==
  translate_expr(ExprScope, "Type", GetVar(TypeConstants[TypeConstName(t)].n)).code

\* the tag of t is the value of $rt_tag_T and of the type constant T
TagAgrees(t) ==
  /\ rt_tag_globals[TypeConstName(t)].i = tag(t)
  /\ TypeConstValue(t) = <<Ins("const", "i32", tag(t))>>

IsBoxing(t) == fn.expr = GetVar(LocalOfType(t)) /\ fn.etype = "Id"

\* the run has left box(tag(t), payload) on the stack
Boxed(t) ==
  /\ Len(m.stack) = 1
  /\ Top(m.stack) = [hi |-> tag(t), lo |-> entry.args[1].lo]
  /\ GlobalOf(m, RtTagGlobal(t)) = V(Top(m.stack).hi)

BoxableTypes == {"Bool", "I32", "F32", "String", "List"}

MaxDefs == 3

\* a top-level definition: import | fn | const | var
Def(kind, name, ftype, gtype, e) ==
  [kind |-> kind, name |-> name, ftype |-> ftype, gtype |-> gtype, e |-> e]

NoType == FunctionType(<<>>, None)

\* parse_file: the definitions of a file by kind, each kind in file order
File(defs) ==
  [imports |-> SelectSeq(defs, LAMBDA d : d.kind = "import"),
   constants |-> SelectSeq(defs, LAMBDA d : d.kind = "const"),
   functions |-> SelectSeq(defs, LAMBDA d : d.kind = "fn"),
   globalvars |-> SelectSeq(defs, LAMBDA d : d.kind = "var")]

\* variant: only the imports are registered
RECURSIVE AllSigs_imports_only(_, _)
AllSigs_imports_only(files, i) ==
  IF i > Len(files) THEN <<>>
  ELSE files[i].imports \o AllSigs_imports_only(files, i + 1)

\* the items of the loops of translate over the files, in loop order
RECURSIVE AllSigs(_, _)
AllSigs(files, i) ==
  IF i > Len(files) THEN <<>>
  ELSE files[i].imports \o files[i].functions \o AllSigs(files, i + 1)

RECURSIVE AllConsts(_, _)
AllConsts(files, i) ==
  IF i > Len(files) THEN <<>> ELSE files[i].constants \o AllConsts(files, i + 1)

RECURSIVE AllGvars(_, _)
AllGvars(files, i) ==
  IF i > Len(files) THEN <<>> ELSE files[i].globalvars \o AllGvars(files, i + 1)

RECURSIVE AllFuncItems(_, _)
AllFuncItems(files, i) ==
  IF i > Len(files) THEN <<>>
  ELSE files[i].imports \o files[i].functions \o AllFuncItems(files, i + 1)

\* the state of translate after Out::new and the $rt_tag globals
PipeStart ==
  [err |-> Ok, functions |-> EmptyMap, gscope |-> GlobalScope_new(EmptyMap),
   scoped |-> FALSE, ns |-> 0, nc |-> 0, ng |-> 0, nf |-> 0,
   out |-> Out_new, imports |-> <<>>, gvars |-> rt_tag_globals,
   start |-> <<>>, funcs |-> <<>>, exports |-> <<>>, text |-> <<>>]

\* the data part of Out as a scope left it
OutOf(lscope) ==
  [data_len |-> lscope.data_len, data |-> lscope.data,
   intern_str_map |-> lscope.intern_str_map, intern_cstr_map |-> lscope.intern_cstr_map]

\* variant: the init sink is put in front of the earlier ones
gvar_declare_prepend(t, gvar, type_, lscope) ==
  LET gscope == decl_gvar(t.gscope, gvar.name, type_)
  IN IF lscope.err # Ok THEN [t EXCEPT !.err = lscope.err]
     ELSE IF gscope.err # Ok THEN [t EXCEPT !.err = gscope.err]
     ELSE [t EXCEPT !.gscope = gscope,
                    !.out = OutOf(lscope),
                    !.start = <<Append(lscope.code, Ins("global.set", gvar.name, -1))>> \o @,
                    !.gvars = Append(@, Ins("global.mut", gvar.name, 0)),
                    !.ng = @ + 1]

\* the global variable loop after translate_expr: decl_gvar, global.set
\* into the init sink (a new child of out.start), the (global ...) line
gvar_declare(t, gvar, type_, lscope) ==
  LET gscope == decl_gvar(t.gscope, gvar.name, type_)
  IN IF lscope.err # Ok THEN [t EXCEPT !.err = lscope.err]
     ELSE IF gscope.err # Ok THEN [t EXCEPT !.err = gscope.err]
     ELSE [t EXCEPT !.gscope = gscope,
                    !.out = OutOf(lscope),
                    !.start = Append(@, Append(lscope.code, Ins("global.set", gvar.name, -1))),
                    !.gvars = Append(@, Ins("global.mut", gvar.name, 0)),
                    !.ng = @ + 1]

\* the global variable loop from the type on
gvar_init(t, gvar, g) ==
  IF ~g.ok THEN [t EXCEPT !.err = g.t]
  ELSE gvar_declare(t, gvar, g.t,
                    translate_expr(LocalScope_new(t.gscope, t.out), g.t, gvar.e))

\* one round of the loop over the global variables
translate_gvar(t, gvar) ==
  gvar_init(t, gvar, IF gvar.gtype # None THEN GOk(gvar.gtype)
                     ELSE guess_type(LocalScope_new(t.gscope, t.out), gvar.e))

\* translate_import
translate_import(t, imp) ==
  [t EXCEPT !.imports = Append(@, Ins("import", imp.name, 0)), !.nf = @ + 1]

\* a definition as ir::Function
ToFunction(d) ==
  [name |-> d.name, visibility |-> "Private", parameters |-> <<>>,
   return_type |-> d.ftype.return_type, body |-> d.e]

\* one round of the loop over the functions
func_item_done(t, r) ==
  IF r.err # Ok THEN [t EXCEPT !.err = r.err]
  ELSE [t EXCEPT !.out = OutOf(r.lscope), !.funcs = Append(@, r.text),
                 !.exports = @ \o r.exports, !.nf = @ + 1]

translate_func_item(t, d) ==
  func_item_done(t, translate_func(t.out, t.gscope, ToFunction(d)))

RECURSIVE Flatten(_, _)
Flatten(seqs, i) == IF i > Len(seqs) THEN <<>> ELSE seqs[i] \o Flatten(seqs, i + 1)

\* Out::get: the memory size and heap start, then the text of the sink tree
Out_get(t) ==
  LET page_len == (t.out.data_len + (PAGE_SIZE - 1)) \div PAGE_SIZE
  IN t.imports \o <<Ins("memory", "$rt_mem", page_len)>> \o t.out.data
     \o Append(t.gvars, Ins("global", "$rt_heap_start", t.out.data_len))
     \o Flatten(t.funcs, 1)
     \o <<Ins("func", "__rt_start", 0)>> \o Flatten(t.start, 1)
     \o <<Ins(")", "", 0), Ins("start", "__rt_start", 0)>> \o t.exports

\* the top-level definitions the files are made of
PipeDefs ==
  { Def("import", "a", FunctionType(<<>>, "I32"), None, Block(<<>>)),
    Def("fn", "a", NoType, None, Block(<<Call("b", <<>>)>>)),
    Def("fn", "b", NoType, None, Block(<<Call("a", <<>>)>>)),
    Def("const", "u", NoType, None, Lit("Int", 1)),
    Def("var", "u", NoType, None, Lit("Int", 1)),
    Def("var", "v", NoType, None, GetVar("u")),
    Def("var", "u", NoType, None, GetVar("v")),
    Def("var", "v", NoType, None, GetVar("v")),
    Def("var", "v", NoType, None, Call("a", <<>>)),
    Def("var", "a", NoType, None, Lit("Int", 1)) }

DefSeqs == UNION { [1..n -> PipeDefs] : n \in 0..MaxDefs }

\* the parser accepts imports only at the head of a file
ImportsFirst(ds) ==
  \A i \in 1..Len(ds) : \A j \in 1..Len(ds) :
    (i < j /\ ds[j].kind = "import") => ds[i].kind = "import"

\* a sequence of definitions cut into two files
PipeInit ==
  /\ \E ds \in DefSeqs : \E k \in 0..Len(ds) :
       /\ ImportsFirst(SubSeq(ds, 1, k))
       /\ ImportsFirst(SubSeq(ds, k + 1, Len(ds)))
       /\ fn = <<File(SubSeq(ds, 1, k)), File(SubSeq(ds, k + 1, Len(ds)))>>
  /\ phase = "translate"
  /\ tr = PipeStart
  /\ entry = NullEntry
  /\ m = NullM

PipeApply(t) ==
  /\ tr' = t
  /\ phase' = IF t.err = Ok THEN "translate" ELSE "failed"
  /\ UNCHANGED <<fn, entry, m>>

\* functions.insert of one import or function
PipeSignature ==
  /\ phase = "translate"
  /\ tr.ns < Len(AllSigs(fn, 1))
  /\ LET d == AllSigs(fn, 1)[tr.ns + 1]
     IN PipeApply([tr EXCEPT !.functions = (d.name :> d.ftype) @@ @, !.ns = @ + 1])

\* GlobalScope::new and the type constants
PipeScope ==
  /\ phase = "translate"
  /\ tr.ns = Len(AllSigs(fn, 1)) /\ ~tr.scoped
  /\ LET g == decl_type_consts(GlobalScope_new(tr.functions), 1)
     IN PipeApply([tr EXCEPT !.gscope = g, !.scoped = TRUE, !.err = g.err])

\* decl_const of one constant
PipeConst ==
  /\ phase = "translate"
  /\ tr.scoped /\ tr.nc < Len(AllConsts(fn, 1))
  /\ LET c == AllConsts(fn, 1)[tr.nc + 1]
         g == decl_const(tr.gscope, c.name, ConstI32(c.e.v))
     IN PipeApply([tr EXCEPT !.gscope = g, !.err = g.err,
                             !.nc = IF g.err = Ok THEN @ + 1 ELSE @])

\* one global variable
PipeGvar ==
  /\ phase = "translate"
  /\ tr.scoped /\ tr.nc = Len(AllConsts(fn, 1)) /\ tr.ng < Len(AllGvars(fn, 1))
  /\ PipeApply(translate_gvar(tr, AllGvars(fn, 1)[tr.ng + 1]))

\* one import or function of the last loop
PipeFuncItem ==
  /\ phase = "translate"
  /\ tr.scoped /\ tr.nc = Len(AllConsts(fn, 1)) /\ tr.ng = Len(AllGvars(fn, 1))
  /\ tr.nf < Len(AllFuncItems(fn, 1))
  /\ LET d == AllFuncItems(fn, 1)[tr.nf + 1]
     IN PipeApply(IF d.kind = "import" THEN translate_import(tr, d)
                  ELSE translate_func_item(tr, d))

\* Ok(out.get())
PipeGet ==
  /\ phase = "translate"
  /\ tr.scoped /\ tr.nc = Len(AllConsts(fn, 1)) /\ tr.ng = Len(AllGvars(fn, 1))
  /\ tr.nf = Len(AllFuncItems(fn, 1))
  /\ tr' = [tr EXCEPT !.text = Out_get(tr)]
  /\ phase' = "done"
  /\ UNCHANGED <<fn, entry, m>>

PipeNext == PipeSignature \/ PipeScope \/ PipeConst \/ PipeGvar \/ PipeFuncItem \/ PipeGet

SpecPipe == PipeInit /\ [][PipeNext]_vars

\* the global variables in declaration order over the files
Gvars == Flatten([i \in 1..Len(fn) |-> fn[i].globalvars], 1)
NamesOf(ds) == {ds[i].name : i \in 1..Len(ds)}

\* the pipeline stopped with an error in the round of global variable i
FailedAtGvar(i) ==
  /\ phase = "failed"
  /\ tr.scoped /\ tr.nc = Len(AllConsts(fn, 1)) /\ tr.ng = i - 1 /\ i <= Len(Gvars)

\* the lines of the start function in the assembled text
StartBody(text) ==
  LET first == CHOOSE i \in 1..Len(text) : text[i] = Ins("func", "__rt_start", 0)
      last == CHOOSE i \in 1..Len(text) : text[i] = Ins("start", "__rt_start", 0)
  IN SubSeq(text, first + 1, last - 2)

\* C5: the start function holds the initializer of every global variable
\* once, each directly followed by the global.set of its variable, in
\* declaration order over the files; an initializer reads only globals
\* declared before it, and reading itself or a later one is an error
C5_StartRunsInitializersInOrder ==
  /\ Len(tr.start) = tr.ng
  /\ \A i \in 1..tr.ng :
       LET c == tr.start[i]
       IN /\ c[Len(c)] = Ins("global.set", Gvars[i].name, -1)
          /\ \A j \in 1..(Len(c) - 1) :
               /\ c[j].op # "global.set"
               /\ c[j].op = "global.get" => \E k \in 1..(i - 1) : Gvars[k].name = c[j].n
  /\ \A i \in 1..Len(Gvars) :
       (FailedAtGvar(i) /\ Gvars[i].e.k = "GetVar") =>
         (tr.err = "NotFound" <=>
            Gvars[i].e.n \notin NamesOf(SubSeq(Gvars, 1, i - 1)) \cup NamesOf(AllConsts(fn, 1)))
  /\ phase = "done" =>
       /\ tr.ng = Len(Gvars)
       /\ StartBody(tr.text) = Flatten(tr.start, 1)
       /\ SelectSeq(StartBody(tr.text), LAMBDA l : l.op = "global.set")
            = [i \in 1..Len(Gvars) |-> Ins("global.set", Gvars[i].name, -1)]

\* a finished translation of three globals, the later ones reading the
\* first
C5_Witness ==
  /\ phase = "done"
  /\ Len(Gvars) = 3
  /\ \E j \in 1..Len(tr.start[2]) : tr.start[2][j] = Ins("global.get", Gvars[1].name, -1)

\* the names of the imports and functions of all files
DefinedFunctions ==
  UNION { NamesOf(fn[i].imports) \cup NamesOf(fn[i].functions) : i \in 1..Len(fn) }

\* the last definition of a function name, in the order of the files
LastSignature(name) ==
  LET all == Flatten([i \in 1..Len(fn) |-> fn[i].imports \o fn[i].functions], 1)
      last == CHOOSE i \in 1..Len(all) :
                all[i].name = name /\ \A j \in (i + 1)..Len(all) : all[j].name # name
  IN all[last].ftype

\* the functions called by an expression
RECURSIVE Callees(_)
Callees(e) ==
  (IF e.k = "FunctionCall" THEN {e.n} ELSE {})
  \cup UNION { Callees(e.a[i]) : i \in 1..Len(e.a) }

\* the pipeline stopped with an error in the round of function item i
FailedAtFuncItem(i) ==
  /\ phase = "failed"
  /\ tr.scoped /\ tr.nc = Len(AllConsts(fn, 1)) /\ tr.ng = Len(Gvars)
  /\ tr.nf = i - 1 /\ i <= Len(AllFuncItems(fn, 1))

\* C6: no global initializer and no function body is translated before the
\* signature of every import and function of every file is registered, so
\* a call of a function defined anywhere never fails to resolve
C6_SignaturesRegisteredFirst ==
  /\ (tr.ng > 0 \/ tr.nf > 0 \/ tr.start # <<>> \/ tr.funcs # <<>>) => tr.scoped
  /\ tr.scoped =>
       /\ DOMAIN tr.gscope.functions = DefinedFunctions
       /\ \A n \in DefinedFunctions : tr.gscope.functions[n] = LastSignature(n)
  /\ \A i \in 1..Len(Gvars) :
       (FailedAtGvar(i) /\ Gvars[i].e.k = "FunctionCall" /\ tr.err = "NotFound") =>
         ~(Callees(Gvars[i].e) \subseteq DefinedFunctions)
  /\ \A i \in 1..Len(AllFuncItems(fn, 1)) :
       (FailedAtFuncItem(i) /\ tr.err = "NotFound") =>
         ~(Callees(AllFuncItems(fn, 1)[i].e) \subseteq DefinedFunctions)

\* a finished translation where the function of the first file calls the
\* function of the second file
C6_Witness ==
  /\ phase = "done"
  /\ Len(fn[1].functions) = 1 /\ Len(fn[2].functions) = 1
  /\ \E j \in 1..Len(tr.funcs[1]) :
       tr.funcs[1][j] = Ins("call", fn[2].functions[1].name, 0)

\* the names defined at top level, in the order translate meets them
AllNames ==
  LET ds == AllSigs(fn, 1) \o AllConsts(fn, 1) \o Gvars
  IN [i \in 1..Len(ds) |-> ds[i].name]

HasDuplicate == \E i \in 1..Len(AllNames) : \E j \in 1..Len(AllNames) :
                  i < j /\ AllNames[i] = AllNames[j]

\* C7: a name defined twice, as the same or as different kinds of
\* definition, never gets through translate
C7_DuplicateNameRejected ==
  HasDuplicate => phase # "done"

\* ---------------------------------------------------------------------
\* The expression parser (parsef.rs): precedence climbing over a token
\* sequence.  The parser state is the token vector, the index i, the
\* error (Ok while none), the kind of the expression parsed last (lhs),
\* the nesting depth in parentheses, and the log of the infix operators
\* consumed: the precedence of each and the depth it was consumed at.
\* ---------------------------------------------------------------------
PREC_POSTFIX == 1000
PREC_UNARY == 900
PREC_PRODUCT == 600
PREC_CMP == 200
PREC_ASSIGN == 100

RESERVED_NAMES == {"var"}

Parser_new(toks) ==
  [toks |-> toks, i |-> 1, err |-> Ok, lhs |-> None, depth |-> 0, log |-> <<>>,
   ends |-> <<>>, ifs |-> <<>>]

peek(p) == IF p.i <= Len(p.toks) THEN p.toks[p.i] ELSE "EOF"

gettok(p) == [p EXCEPT !.i = @ + 1]

IsName(t) == t \in {"x", "var"}

InvalidToken(p, expected) ==
  [p EXCEPT !.err = "InvalidToken: expected " \o expected]

consumed(p, tok) == IF peek(p) = tok THEN gettok(p) ELSE p

expect(p, tok) ==
  IF p.err # Ok THEN p
  ELSE IF peek(p) = tok THEN gettok(p) ELSE InvalidToken(p, tok)

expect_name(p) ==
  IF p.err # Ok THEN p
  ELSE IF IsName(peek(p)) /\ peek(p) \notin RESERVED_NAMES THEN gettok(p)
  ELSE InvalidToken(p, "Name")

\* no token of the alphabet names a builtin or a user-defined type
parse_type(p) ==
  IF p.err # Ok THEN p ELSE InvalidToken(p, "Type")

Parsed(p, kind) == IF p.err # Ok THEN p ELSE [p EXCEPT !.lhs = kind]

Enter(p) == [p EXCEPT !.depth = @ + 1]

Leave(p) == IF p.err # Ok THEN p ELSE [p EXCEPT !.depth = @ - 1]

Logged(p, prec) ==
  [p EXCEPT !.log = Append(@, [prec |-> prec, depth |-> p.depth])]

RECURSIVE parse_expr(_, _)
RECURSIVE parse_atom(_)
RECURSIVE parse_infix(_, _)
RECURSIVE parse_args(_)
RECURSIVE parse_args_next(_)
RECURSIVE parse_block(_)
RECURSIVE parse_if(_)

parse_var_type(p) ==
  IF p.err = Ok /\ IsName(peek(p)) THEN parse_type(p) ELSE p

parse_var(p) ==
  Parsed(parse_expr(expect(parse_var_type(expect_name(gettok(p))), "="), 0),
         "DeclVar")

parse_atom(p) ==
  IF p.err # Ok THEN p
  ELSE CASE peek(p) = "var" -> parse_var(p)
         [] peek(p) = "x" -> Parsed(expect_name(p), "GetVar")
         [] peek(p) = "!" ->
              Parsed(parse_expr(gettok(p), PREC_UNARY), "Unop")
         [] peek(p) = "(" ->
              Leave(expect(parse_expr(Enter(gettok(p)), 0), ")"))
         [] peek(p) = "{" -> parse_block(p)
         [] peek(p) = "if" -> parse_if(p)
         [] OTHER -> InvalidToken(p, "Expression")

parse_args_next(p) ==
  IF p.err # Ok THEN p
  ELSE IF peek(p) = "," THEN parse_args(gettok(p))
  ELSE expect(p, ")")

parse_args(p) ==
  IF p.err # Ok THEN p
  ELSE IF peek(p) = ")" THEN gettok(p)
  ELSE parse_args_next(parse_expr(p, 0))

parse_call(p) ==
  IF p.lhs = "GetVar"
    THEN Parsed(Leave(parse_args(Enter(gettok(p)))), "FunctionCall")
    ELSE InvalidToken(gettok(p), "Function call")

parse_binop(p, opprec) ==
  Parsed(parse_expr(gettok(Logged(p, opprec)), opprec + 1), "Binop")

parse_assign(p) ==
  IF p.lhs = "GetVar"
    THEN Parsed(parse_expr(gettok(Logged(p, PREC_ASSIGN)), 0), "SetVar")
    ELSE InvalidToken(gettok(p), "Assignment")

parse_infix(p, prec) ==
  IF p.err # Ok THEN p
  ELSE CASE peek(p) = "(" ->
              IF prec > PREC_POSTFIX THEN p
              ELSE parse_infix(parse_call(p), prec)
         [] peek(p) = "*" ->
              IF prec > PREC_PRODUCT THEN p
              ELSE parse_infix(parse_binop(p, PREC_PRODUCT), prec)
         [] peek(p) = "<" ->
              IF prec > PREC_CMP THEN p
              ELSE parse_infix(parse_binop(p, PREC_CMP), prec)
         [] peek(p) = "=" ->
              IF prec > PREC_ASSIGN THEN p
              ELSE parse_infix(parse_assign(p), prec)
         [] OTHER -> p

parse_expr(p, prec) == parse_infix(parse_atom(p), prec)

RECURSIVE consume_delim(_)
consume_delim(p) ==
  IF p.err = Ok /\ peek(p) \in {"\n", ";"} THEN consume_delim(gettok(p)) ELSE p

\* an expect_delim that asks for no delimiter
expect_delim_lenient(p) == consume_delim(p)

expect_delim(p) ==
  IF p.err # Ok THEN p
  ELSE IF peek(p) # "}" /\ peek(p) # "EOF"
    THEN IF peek(p) = ";" THEN consume_delim(gettok(p))
         ELSE consume_delim(expect(p, "\n"))
    ELSE consume_delim(p)

\* the statement parsed, with the index of the token after it noted in ends
StmtEnd(p) == IF p.err # Ok THEN p ELSE [p EXCEPT !.ends = Append(@, p.i)]

parse_stmt(p) == expect_delim(StmtEnd(parse_expr(p, 0)))

RECURSIVE parse_stmts(_)
parse_stmts(p) ==
  IF p.err # Ok THEN p
  ELSE IF peek(p) = "}" THEN gettok(p)
  ELSE parse_stmts(parse_stmt(p))

parse_block(p) ==
  IF p.err # Ok THEN p
  ELSE Parsed(Leave(parse_stmts(consume_delim(Enter(expect(p, "{"))))), "Block")

\* Parser::span: the span of the token at i; positions count tokens
span(p) == [start |-> p.i, end |-> p.i + 1]

\* SSpan::upto: extend to the other's end
upto(a, b) == [start |-> a.start, end |-> b.end]

\* Ok(Expr::If(span.upto(..), pairs, other)): the node is noted in ifs with
\* its span, the span of its else block, the number of its pairs, of the
\* else blocks parsed for it, and of the pairs parsed after an else block
if_node(p, node) ==
  IF p.err # Ok THEN p
  ELSE Parsed([p EXCEPT !.ifs = Append(@, [node EXCEPT !.span = upto(@, span(p))])],
              "If")

RECURSIVE parse_else(_, _)

\* other = parse_block(parser)?: q is the parser after the block that
\* started at token i
else_block(q, node, i) ==
  parse_else(q, [node EXCEPT !.nelse = @ + 1,
                             !.other = upto([start |-> i, end |-> i + 1], span(q))])

\* the while loop of parse_if over `else`
parse_else(p, node) ==
  IF p.err # Ok THEN p
  ELSE IF peek(p) # "else" THEN if_node(p, node)
  ELSE CASE peek(gettok(p)) = "if" ->
              parse_else(parse_block(parse_expr(gettok(gettok(p)), 0)),
                         [node EXCEPT !.npairs = @ + 1,
                                      !.late = IF node.nelse > 0 THEN @ + 1 ELSE @])
         [] peek(gettok(p)) = "{" ->
              else_block(parse_block(gettok(p)), node, p.i + 1)
         [] OTHER -> InvalidToken(gettok(p), "if or block (in else-branch)")

parse_if(p) ==
  IF p.err # Ok THEN p
  ELSE parse_else(parse_block(parse_expr(expect(p, "if"), 0)),
                  [span |-> span(p), other |-> span(p),
                   npairs |-> 1, nelse |-> 0, late |-> 0])

\* --- SpecParse: one call parse_expr(prec) on a token sequence ----------
MaxToks == 6

Tokens == {"x", "var", "=", "*", "<", "!", "(", ")"}

\* the precedences parse_expr is called with: a statement or a
\* parenthesis (0), the right operand of a comparison and of a product,
\* and the operand of a unary operator
PrecClasses == {0, PREC_CMP + 1, PREC_PRODUCT + 1, PREC_UNARY}

ParseInit ==
  /\ \E n \in 0..MaxToks : \E toks \in [1..n -> Tokens] :
       \E prec \in PrecClasses : fn = [toks |-> toks, prec |-> prec]
  /\ phase = "tokens"
  /\ tr = NullTr
  /\ entry = NullEntry
  /\ m = NullM

ParseExpr ==
  /\ phase = "tokens"
  /\ tr' = parse_expr(Parser_new(fn.toks), fn.prec)
  /\ phase' = "parsed"
  /\ UNCHANGED <<fn, entry, m>>

ParseNext == ParseExpr

SpecParse == ParseInit /\ [][ParseNext]_vars

ParsedOk == phase = "parsed" /\ tr.err = Ok

\* the infix operators the call consumed outside every parenthesis
ConsumedOutside ==
  {tr.log[k].prec : k \in {j \in 1..Len(tr.log) : tr.log[j].depth = 0}}

HasVar == \E k \in 1..Len(fn.toks) : fn.toks[k] = "var"

\* C10: a successful parse_expr(p) consumes, outside parentheses, no infix
\* operator of a precedence strictly lower than p, whatever the operand
\* is (a var declaration and an assignment included)
C10_NoLowerPrecedenceConsumed ==
  ParsedOk => \A q \in ConsumedOutside : q >= fn.prec

\* ---------------------------------------------------------------------
\* `a and b` / `a or b`: the if-expression parse_infix builds, through
\* translate_expr with expected type bool, then the emitted code on the
\* machine.  While the code runs, entry records how often its first line
\* ran, the value each "if" tested and the user functions called with
\* what they returned.
\* ---------------------------------------------------------------------
AssertType(t, e) == E("AssertType", "", t, <<e>>)

\* an `and` that tests its right operand first
logical_and_eager(lhs, rhs) ==
  If(AssertType("Bool", rhs), lhs, Lit("Bool", 0))

\* Token::Name("and")
logical_and(lhs, rhs) ==
  If(lhs, AssertType("Bool", rhs), Lit("Bool", 0))

\* Token::Name("or")
logical_or(lhs, rhs) ==
  If(lhs, Lit("Bool", 1), rhs)

LogicFunctions ==
  ExprFunctions @@ ("die" :> FunctionType(<<>>, "Bool"))

LogicGscope == decl_gvar(GlobalScope_new(LogicFunctions), "G", "String")

LogicScope ==
  [decl_params(LocalScope_new(LogicGscope, Out_new), ExprLocals, 1) EXCEPT !.code = <<>>]

LogicLeft == { Lit("Bool", 0), Lit("Bool", 1), GetVar("xb"), Call("c", <<>>) }
LogicRight == { Call("die", <<>>), Lit("Bool", 0), Lit("Bool", 1), GetVar("xb") }

LogicExpr(op, l, r) == IF op = "and" THEN logical_and(l, r) ELSE logical_or(l, r)

LogicInit ==
  /\ \E op \in {"and", "or"} : \E l \in LogicLeft : \E r \in LogicRight :
       fn = [op |-> op, left |-> l, right |-> r, expr |-> LogicExpr(op, l, r)]
  /\ phase = "start"
  /\ tr = NullTr
  /\ entry = NullEntry
  /\ m = NullM

LogicTranslate ==
  /\ phase = "start"
  /\ LET st == translate_expr(LogicScope, "Bool", fn.expr)
     IN /\ tr' = [err |-> st.err, lscope |-> st, text |-> st.code]
        /\ phase' = IF st.err = Ok THEN "translated" ELSE "failed"
  /\ UNCHANGED <<fn, entry, m>>

\* the code is entered with the bool local xb holding false or true
LogicEnter ==
  /\ phase = "translated"
  /\ \E x \in {0, 1} :
       /\ entry' = [args |-> <<V(x)>>, first |-> 0, cond |-> <<>>, calls |-> <<>>]
       /\ m' = Machine(tr.text, LogicFunctions, EntryRc(tr.lscope),
                       (Key("xb", 0) :> V(x)), ("G" :> V(HeapObj)), MaxTrue, 0, -1)
  /\ phase' = "running"
  /\ UNCHANGED <<fn, tr>>

LogicObserve(e, m0, m1) ==
  LET ins == m0.code[m0.pc]
  IN [e EXCEPT !.first = IF m0.pc = 1 THEN @ + 1 ELSE @,
               !.cond = IF ins.op = "if" THEN Append(@, Top(m0.stack).lo) ELSE @,
               !.calls = IF ins.op = "call" /\ ins.n \in DOMAIN LogicFunctions
                         THEN Append(@, [n |-> ins.n, r |-> Top(m1.stack).lo])
                         ELSE @]

LogicStep ==
  /\ phase = "running"
  /\ m.status = "run"
  /\ \E m1 \in step(m, HeapObj) :
       /\ m' = m1
       /\ entry' = LogicObserve(entry, m, m1)
  /\ UNCHANGED <<fn, phase, tr>>

LogicNext == LogicTranslate \/ LogicEnter \/ LogicStep

SpecLogic == LogicInit /\ [][LogicNext]_vars

LogicDone == phase = "running" /\ m.status = "done"

DieCalls == {i \in 1..Len(entry.calls) : entry.calls[i].n = "die"}

\* what the right operand evaluates to in the run, once it has run
RightValue ==
  CASE fn.right.k = "FunctionCall" -> entry.calls[CHOOSE i \in DieCalls : TRUE].r
    [] fn.right.k = "Bool" -> fn.right.v
    [] OTHER -> entry.args[1].lo

\* the left operand was true / false: the value the if tested
LeftTrue == Len(entry.cond) = 1 /\ entry.cond[1] # 0
LeftFalse == Len(entry.cond) = 1 /\ entry.cond[1] = 0

\* C11: the code of an `and` / `or` never fails to translate, never traps,
\* runs the left operand exactly once, runs the right operand only when the
\* left was true (and) / false (or) and then at most once, and ends with
\* the right operand's value in that case and with false (and) / true (or)
\* otherwise
C11_ShortCircuit ==
  /\ phase # "failed"
  /\ phase = "running" =>
       /\ m.status # "trap"
       /\ entry.first <= 1 /\ Len(entry.cond) <= 1
       /\ Cardinality(DieCalls) <= 1
       /\ DieCalls # {} => IF fn.op = "and" THEN LeftTrue ELSE LeftFalse
  /\ LogicDone =>
       /\ entry.first = 1 /\ Len(entry.cond) = 1
       /\ Len(m.stack) = 1
       /\ fn.op = "and" =>
            Top(m.stack).lo = IF LeftTrue THEN RightValue ELSE 0
       /\ fn.op = "or" =>
            Top(m.stack).lo = IF LeftFalse THEN RightValue ELSE 1
       /\ fn.right.k = "FunctionCall" =>
            (DieCalls # {} <=> IF fn.op = "and" THEN LeftTrue ELSE LeftFalse)

\* `false and die()` has run to its end
C11_Witness ==
  /\ LogicDone /\ fn.op = "and" /\ fn.right.k = "FunctionCall"
  /\ fn.left = Lit("Bool", 0) /\ Top(m.stack).lo = 0 /\ DieCalls = {}

\* ---------------------------------------------------------------------
\* SpecBlock: parse_block on a token sequence that opens with `{`.
\* ---------------------------------------------------------------------
MaxBlockToks == 6

BlockTokens == {"x", "(", ")", "{", "}", ";", "\n"}

Delims == {";", "\n"}

BlockInit ==
  /\ \E n \in 0..MaxBlockToks : \E toks \in [1..n -> BlockTokens] :
       fn = [toks |-> <<"{">> \o toks]
  /\ phase = "tokens"
  /\ tr = NullTr
  /\ entry = NullEntry
  /\ m = NullM

ParseBlock ==
  /\ phase = "tokens"
  /\ tr' = parse_block(Parser_new(fn.toks))
  /\ phase' = "parsed"
  /\ UNCHANGED <<fn, entry, m>>

BlockNext == ParseBlock

SpecBlock == BlockInit /\ [][BlockNext]_vars

BlockParsed == phase = "parsed"

BlockOk(toks) == parse_block(Parser_new(toks)).err = Ok

InsertAfter(toks, j, d) == SubSeq(toks, 1, j) \o <<d>> \o SubSeq(toks, j + 1, Len(toks))

RemoveAt(toks, j) == SubSeq(toks, 1, j - 1) \o SubSeq(toks, j + 1, Len(toks))

\* a delimiter more can stand after position j: after `{`, after a
\* delimiter, or in front of `}`
CanInsertAfter(toks, j) ==
  \/ toks[j] \in Delims \cup {"{"}
  \/ j < Len(toks) /\ toks[j + 1] = "}"

\* the delimiter at j is not the only one between two statements
Redundant(toks, j) ==
  /\ toks[j] \in Delims
  /\ \/ toks[j - 1] \in Delims \cup {"{"}
     \/ j < Len(toks) /\ toks[j + 1] \in Delims \cup {"}"}

\* C12: when parse_block succeeds every statement is followed by a newline,
\* a `;` or the closing `}`; a failure is an InvalidToken error; one more
\* delimiter in a run, at the start of the block or before `}` keeps the
\* parse successful, and so does taking away a delimiter that is not the
\* only one between two statements
C12_StatementsDelimited ==
  BlockParsed =>
    /\ tr.err # Ok => SubSeq(tr.err, 1, 12) = "InvalidToken"
    /\ tr.err = Ok =>
         /\ \A k \in 1..Len(tr.ends) :
              tr.ends[k] <= Len(fn.toks) /\ fn.toks[tr.ends[k]] \in Delims \cup {"}"}
         /\ \A j \in 1..tr.i - 1 :
              /\ CanInsertAfter(fn.toks, j) =>
                   \A d \in Delims : BlockOk(InsertAfter(fn.toks, j, d))
              /\ Redundant(fn.toks, j) => BlockOk(RemoveAt(fn.toks, j))

\* a block of two statements, the first ended by a run of two delimiters
\* and the last by none, has parsed
C12_Witness ==
  /\ BlockParsed /\ tr.err = Ok
  /\ fn.toks = <<"{", "x", ";", "\n", "x", "}">>
  /\ Len(tr.ends) = 2

\* ---------------------------------------------------------------------
\* SpecOut: the Out of one translation.  Lines are written to the named
\* sinks in any order, literals are interned in any order, and Out::get
\* closes the translation.  tr holds the main sink, the text of each
\* named sink, the data cursor with the intern maps, and the log of the
\* intern calls.
\* ---------------------------------------------------------------------
MaxWrites == 2
MaxInterns == 3

\* the sinks Out::new spawns from main, in spawn order
OutSinks == <<"imports", "memory", "data", "gvars", "funcs", "start", "exports">>

SinkId(name) == CHOOSE i \in 1..Len(OutSinks) : OutSinks[i] = name

WfsCode == Ins("wfs::CODE", "", 0)

\* variant: the fragment is written before any sink is spawned
Out_main_code_first ==
  LET s1 == Sink_writeln(<<>>, WfsCode)
      s2 == Sink_spawn(Sink_spawn(Sink_spawn(Sink_spawn(Sink_spawn(s1,
              SinkId("imports")), SinkId("memory")), SinkId("data")),
              SinkId("gvars")), SinkId("funcs"))
      s3 == Sink_writeln(s2, Ins("func", "__rt_start", 0))
      s4 == Sink_spawn(s3, SinkId("start"))
      s5 == Sink_writeln(Sink_writeln(s4, Ins(")", "", 0)), Ins("start", "__rt_start", 0))
  IN Sink_spawn(s5, SinkId("exports"))

\* Out::new: the main sink
Out_main ==
  LET s1 == Sink_spawn(Sink_spawn(Sink_spawn(Sink_spawn(Sink_spawn(<<>>,
              SinkId("imports")), SinkId("memory")), SinkId("data")),
              SinkId("gvars")), SinkId("funcs"))
      s2 == Sink_writeln(s1, WfsCode)
      s3 == Sink_writeln(s2, Ins("func", "__rt_start", 0))
      s4 == Sink_spawn(s3, SinkId("start"))
      s5 == Sink_writeln(Sink_writeln(s4, Ins(")", "", 0)), Ins("start", "__rt_start", 0))
  IN Sink_spawn(s5, SinkId("exports"))

OutTexts == {"a", "hi", "big"}

OutInit ==
  /\ fn = [texts |-> OutTexts]
  /\ phase = "open"
  /\ tr = [main |-> Out_main, children |-> [i \in 1..Len(OutSinks) |-> <<>>],
           data_len |-> Out_new.data_len, data |-> Out_new.data,
           intern_str_map |-> Out_new.intern_str_map,
           intern_cstr_map |-> Out_new.intern_cstr_map,
           nw |-> 0, calls |-> <<>>, text |-> <<>>]
  /\ entry = NullEntry
  /\ m = NullM

\* sink.writeln on one of the named sinks (the data sink is written by
\* Out::data only)
OutWriteln ==
  /\ phase = "open"
  /\ tr.nw < MaxWrites
  /\ \E name \in {"imports", "memory", "gvars", "funcs", "start", "exports"} :
       tr' = [tr EXCEPT !.nw = @ + 1,
                        !.children[SinkId(name)] =
                           Append(@, Ins("line", name, Len(@)))]
  /\ UNCHANGED <<fn, phase, entry, m>>

\* one intern call, logged with the pointer it returned
Interned(t, op, s, t1) ==
  [t1 EXCEPT !.calls = Append(@,
     [op |-> op, s |-> s,
      ptr |-> IF op = "str" THEN t1.intern_str_map[s] ELSE t1.intern_cstr_map[s],
      before |-> t.data_len, after |-> t1.data_len,
      ndata |-> Len(t1.data) - Len(t.data)])]

OutInternStr ==
  /\ phase = "open"
  /\ Len(tr.calls) < MaxInterns
  /\ \E s \in fn.texts : tr' = Interned(tr, "str", s, intern_str(tr, s))
  /\ UNCHANGED <<fn, phase, entry, m>>

OutInternCstr ==
  /\ phase = "open"
  /\ Len(tr.calls) < MaxInterns
  /\ \E s \in fn.texts : tr' = Interned(tr, "cstr", s, intern_cstr(tr, s))
  /\ UNCHANGED <<fn, phase, entry, m>>

\* the data directives Out::data wrote to the data sink
DataLines(data) == [i \in 1..Len(data) |-> Ins("data", data[i].what, data[i].ptr)]

\* variant: the page count is rounded down
Out_get_main_floor(t) ==
  LET page_len == t.data_len \div PAGE_SIZE
      children == [t.children EXCEPT
                     ![SinkId("memory")] = Append(@, Ins("memory", "$rt_mem", page_len)),
                     ![SinkId("gvars")] = Append(@, Ins("global", "$rt_heap_start", t.data_len)),
                     ![SinkId("data")] = DataLines(t.data)]
  IN [t EXCEPT !.children = children, !.text = Sink_get(t.main, children)]

\* Out::get on the sink tree
Out_get_main(t) ==
  LET page_len == (t.data_len + (PAGE_SIZE - 1)) \div PAGE_SIZE
      children == [t.children EXCEPT
                     ![SinkId("memory")] = Append(@, Ins("memory", "$rt_mem", page_len)),
                     ![SinkId("gvars")] = Append(@, Ins("global", "$rt_heap_start", t.data_len)),
                     ![SinkId("data")] = DataLines(t.data)]
  IN [t EXCEPT !.children = children, !.text = Sink_get(t.main, children)]

OutGet ==
  /\ phase = "open"
  /\ tr' = Out_get_main(tr)
  /\ phase' = "done"
  /\ UNCHANGED <<fn, entry, m>>

OutNext == OutWriteln \/ OutInternStr \/ OutInternCstr \/ OutGet

SpecOut == OutInit /\ [][OutNext]_vars

OutDone == phase = "done"

SinkText(name) == tr.children[SinkId(name)]

StartFunction ==
  <<Ins("func", "__rt_start", 0)>> \o SinkText("start")
  \o <<Ins(")", "", 0), Ins("start", "__rt_start", 0)>>

\* C13 as stated: the assembled text is the well-known-functions fragment,
\* then imports, memory, data, gvars, funcs, then $__rt_start enclosing
\* start, then (start $__rt_start), then exports
C13_FragmentFirst ==
  OutDone =>
    tr.text = <<WfsCode>> \o SinkText("imports") \o SinkText("memory")
              \o SinkText("data") \o SinkText("gvars") \o SinkText("funcs")
              \o StartFunction \o SinkText("exports")

\* C13 amended: the assembled text is imports, memory, data, gvars, funcs,
\* then the well-known-functions fragment, then $__rt_start enclosing
\* start, then (start $__rt_start), then exports, whatever the order the
\* sinks were written in
C13_FragmentAfterFuncs ==
  OutDone =>
    tr.text = SinkText("imports") \o SinkText("memory")
              \o SinkText("data") \o SinkText("gvars") \o SinkText("funcs")
              \o <<WfsCode>> \o StartFunction \o SinkText("exports")

\* exports was written before imports, and both before a literal was interned
C13_Witness ==
  /\ OutDone
  /\ SinkText("exports") # <<>> /\ SinkText("imports") # <<>>
  /\ SinkText("data") # <<>>

\* the intern calls that allocated, in call order
Allocs == SelectSeq(tr.calls, LAMBDA c : c.ndata = 1)

\* C14: every pointer returned by an allocation is a multiple of 16 and at
\* least RESERVED_BYTES; the cursor never decreases; each allocation starts
\* at or after the end of the one before, so no two overlap and none lies
\* in the reserved region
C14_AllocationsAlignedAndDisjoint ==
  /\ Len(tr.data) = Len(Allocs)
  /\ \A i \in 1..Len(tr.calls) :
       /\ tr.calls[i].ptr % DataAlign = 0
       /\ tr.calls[i].ptr >= RESERVED_BYTES
       /\ tr.calls[i].after >= tr.calls[i].before
       /\ i > 1 => tr.calls[i].before = tr.calls[i - 1].after
  /\ \A i \in 1..Len(tr.data) :
       /\ tr.data[i].ptr = Allocs[i].ptr
       /\ tr.data[i].ptr + tr.data[i].len <= Allocs[i].after
       /\ tr.data[i].ptr + tr.data[i].len <= tr.data_len
       /\ i > 1 => tr.data[i].ptr >= tr.data[i - 1].ptr + tr.data[i - 1].len
  /\ \A i, j \in 1..Len(tr.data) :
       i # j => \/ tr.data[i].ptr + tr.data[i].len <= tr.data[j].ptr
                \/ tr.data[j].ptr + tr.data[j].len <= tr.data[i].ptr

\* three allocations were made, one of them ending on a page boundary
C14_Witness ==
  /\ Len(tr.data) = 3
  /\ \E i \in 1..3 : tr.calls[i].after = PAGE_SIZE

\* C15: a text interned again by the same operation gets the pointer of the
\* first call, with no new data segment and the cursor unchanged; two
\* different texts interned by the same operation get different pointers
C15_InternIdempotent ==
  \A i, j \in 1..Len(tr.calls) :
    (i < j /\ tr.calls[i].op = tr.calls[j].op) =>
      /\ tr.calls[i].s = tr.calls[j].s =>
           /\ tr.calls[j].ptr = tr.calls[i].ptr
           /\ tr.calls[j].ndata = 0
           /\ tr.calls[j].after = tr.calls[j].before
      /\ tr.calls[i].s # tr.calls[j].s => tr.calls[j].ptr # tr.calls[i].ptr

\* a text was interned, then another, then the first again
C15_Witness ==
  /\ Len(tr.calls) = 3
  /\ tr.calls[1].op = tr.calls[3].op /\ tr.calls[1].s = tr.calls[3].s
  /\ tr.calls[2].op = tr.calls[1].op /\ tr.calls[2].s # tr.calls[1].s

MemoryPages ==
  LET l == SinkText("memory")[Len(SinkText("memory"))] IN l.i

HeapStart ==
  LET l == SinkText("gvars")[Len(SinkText("gvars"))] IN l.i

\* C16: in the assembled module the memory has ceil(data_len / 65536) pages
\* and $rt_heap_start is data_len, the cursor after the last allocation;
\* every data segment ends at or below $rt_heap_start and inside the memory
C16_MemoryCoversData ==
  OutDone =>
    /\ Ins("memory", "$rt_mem", MemoryPages) \in {tr.text[i] : i \in 1..Len(tr.text)}
    /\ Ins("global", "$rt_heap_start", HeapStart) \in {tr.text[i] : i \in 1..Len(tr.text)}
    /\ HeapStart = tr.data_len
    /\ Len(tr.calls) > 0 => HeapStart = tr.calls[Len(tr.calls)].after
    /\ (MemoryPages - 1) * PAGE_SIZE < tr.data_len
    /\ MemoryPages * PAGE_SIZE >= tr.data_len
    /\ \A i \in 1..Len(tr.data) :
         /\ tr.data[i].ptr + tr.data[i].len <= HeapStart
         /\ tr.data[i].ptr + tr.data[i].len <= MemoryPages * PAGE_SIZE

\* the data ends a little over the first page: two pages are declared
C16_Witness ==
  /\ OutDone /\ tr.data_len = PAGE_SIZE + DataAlign /\ MemoryPages = 2

\* ---------------------------------------------------------------------
\* SpecSetConst: an assignment to a constant through translate_expr, with
\* every right-hand side and every expected type.
\* ---------------------------------------------------------------------
ConstNames == {"K"} \cup {TypeConstants[i].n : i \in 1..Len(TypeConstants)}

SetConstInit ==
  /\ \E c \in ConstNames : \E e \in VoidExprs \cup ValueExprs :
       \E t \in Types \cup {None} :
         fn = [expr |-> SetVar(c, e), etype |-> t]
  /\ phase = "start"
  /\ tr = NullTr
  /\ entry = NullEntry
  /\ m = NullM

SetConstTranslate ==
  /\ phase = "start"
  /\ LET st == translate_expr(ExprScope, fn.etype, fn.expr)
     IN /\ tr' = [err |-> st.err, lscope |-> st, text |-> st.code]
        /\ phase' = IF st.err = Ok THEN "translated" ELSE "failed"
  /\ UNCHANGED <<fn, entry, m>>

SetConstNext == SetConstTranslate

SpecSetConst == SetConstInit /\ [][SetConstNext]_vars

\* the `got` texts of the Error::Type values Expr::SetVar returns
SetVarTypeErrors == {"constant", "Void (setvar)"}

\* C17: an assignment to a name that resolves to a constant fails with a
\* TypeError whatever the right-hand side and the expected type are, and
\* nothing is emitted: no code, no data, no local
C17_SetConstantFails ==
  phase # "start" =>
    /\ phase = "failed"
    /\ tr.err \in SetVarTypeErrors
    /\ fn.etype = None => tr.err = "constant"
    /\ tr.text = <<>>
    /\ tr.lscope.data = ExprScope.data
    /\ tr.lscope.decls = ExprScope.decls

\* a string literal assigned to the constant K as a statement
C17_Witness ==
  /\ phase = "failed" /\ tr.err = "constant"
  /\ fn.expr = SetVar("K", Str("a")) /\ fn.etype = None

\* ---------------------------------------------------------------------
\* SpecIf: parse_if on a token sequence that opens with `if`.
\* ---------------------------------------------------------------------
MaxIfToks == 9

IfTokens == {"if", "else", "x", "{", "}"}

IfInit ==
  /\ \E n \in 0..MaxIfToks : \E toks \in [1..n -> IfTokens] :
       fn = [toks |-> <<"if">> \o toks]
  /\ phase = "tokens"
  /\ tr = NullTr
  /\ entry = NullEntry
  /\ m = NullM

ParseIf ==
  /\ phase = "tokens"
  /\ tr' = parse_if(Parser_new(fn.toks))
  /\ phase' = "parsed"
  /\ UNCHANGED <<fn, entry, m>>

IfNext == ParseIf

SpecIf == IfInit /\ [][IfNext]_vars

IfParsedOk == phase = "parsed" /\ tr.err = Ok

\* C18: the else branch of an if parsed without an else is an empty block
\* with the span of the if expression
C18_ElseBlockHasSpanOfIf ==
  IfParsedOk =>
    \A k \in 1..Len(tr.ifs) :
      tr.ifs[k].nelse = 0 => tr.ifs[k].other = tr.ifs[k].span

\* C19: an if expression has at most one else block, and no `else if`
\* branch is parsed after it
C19_AtMostOneElse ==
  IfParsedOk =>
    \A k \in 1..Len(tr.ifs) : tr.ifs[k].nelse <= 1 /\ tr.ifs[k].late = 0

\* ---------------------------------------------------------------------
\* SpecSet: `NAME = EXPR` as a statement, NAME a local or global variable
\* of a heap type, through translate_expr and then on the machine.  The
\* heap holds two strings and a list; every object is counted once for
\* each variable that holds it, and an interned literal once more for the
\* data segment.
\* ---------------------------------------------------------------------
StrA == HeapObj
StrB == HeapObj + DataAlign
ListL == HeapObj + DataAlign + DataAlign

\* the assignments: target and right-hand side
SetExprs ==
  { SetVar("xs", e) : e \in {GetVar("xs"), GetVar("G"), Str("a"), Call("f", <<GetVar("xs")>>)} }
  \cup { SetVar("G", e) : e \in {GetVar("G"), GetVar("xs"), Str("a")} }
  \cup { SetVar("xL", GetVar("xL")) }
  \cup { SetVar("xa", e) : e \in {GetVar("xa"), GetVar("xs"), GetVar("xL"),
                                  Str("a"), Lit("Int", 1)} }

\* what the variables may hold at entry
SetStores ==
  { [xs |-> V(s), G |-> V(g), xL |-> V(ListL), xa |-> a] :
      s \in {0, StrA, StrB}, g \in {StrA, StrB},
      a \in {[hi |-> TAG_STRING, lo |-> StrA], [hi |-> TAG_LIST, lo |-> ListL],
             [hi |-> TAG_I32, lo |-> 1]} }

\* the number of variables of the store that hold object o
Holders(store, o) ==
  (IF store.xs.lo = o THEN 1 ELSE 0) + (IF store.G.lo = o THEN 1 ELSE 0)
  + (IF store.xL.lo = o THEN 1 ELSE 0)
  + (IF IsHeapTag(store.xa.hi) /\ store.xa.lo = o THEN 1 ELSE 0)

Literals(lscope) == {lscope.intern_str_map[x] : x \in DOMAIN lscope.intern_str_map}

Owners(store, lscope, o) ==
  Holders(store, o) + (IF o \in Literals(lscope) THEN 1 ELSE 0)

SetInit ==
  /\ \E e \in SetExprs : fn = [expr |-> e, etype |-> None]
  /\ phase = "start"
  /\ tr = NullTr
  /\ entry = NullEntry
  /\ m = NullM

SetTranslate ==
  /\ phase = "start"
  /\ LET st == translate_expr(ExprScope, fn.etype, fn.expr)
     IN /\ tr' = [err |-> st.err, lscope |-> st, text |-> st.code]
        /\ phase' = IF st.err = Ok THEN "translated" ELSE "failed"
  /\ UNCHANGED <<fn, entry, m>>

SetLocals(store) ==
  [k \in {Key(ExprScope.decls[i].n, ExprScope.decls[i].i) : i \in 1..Len(ExprScope.decls)} |->
     CASE k[1] = "xs" -> store.xs
       [] k[1] = "xL" -> store.xL
       [] k[1] = "xa" -> store.xa
       [] OTHER -> V(0)]

SetEnter ==
  /\ phase = "translated"
  /\ \E store \in SetStores :
       LET rc0 == [o \in {StrA, StrB, ListL} \cup Literals(tr.lscope) |->
                     Owners(store, tr.lscope, o)]
       IN /\ entry' = [args |-> <<>>, rc0 |-> rc0, store |-> store, low |-> rc0]
          /\ m' = Machine(tr.text, ExprFunctions, rc0, SetLocals(store),
                          ("G" :> store.G), MaxTrue, 0, -1)
  /\ phase' = "running"
  /\ UNCHANGED <<fn, tr>>

\* one instruction; entry.low keeps the lowest count each object has had
SetStep ==
  /\ phase = "running"
  /\ m.status = "run"
  /\ \E m1 \in step(m, StrA) :
       /\ m' = m1
       /\ entry' = [entry EXCEPT !.low = [o \in DOMAIN @ |->
                                           IF m1.rc[o] < @[o] THEN m1.rc[o] ELSE @[o]]]
  /\ UNCHANGED <<fn, phase, tr>>

SetNext == SetTranslate \/ SetEnter \/ SetStep

SpecSet == SetInit /\ [][SetNext]_vars

SetDone == phase = "running" /\ m.status = "done"

SetTarget == get(ExprScope, fn.expr.n)

\* the variables as the machine holds them
StoreNow ==
  [xs |-> LocalOf(m, Key("xs", get(ExprScope, "xs").i)),
   xL |-> LocalOf(m, Key("xL", get(ExprScope, "xL").i)),
   xa |-> LocalOf(m, Key("xa", get(ExprScope, "xa").i)),
   G |-> GlobalOf(m, "G")]

\* the object a value of the target's type refers to, 0 when none
ObjectOf(v) ==
  IF SetTarget.type = "Id" /\ ~IsHeapTag(v.hi) THEN 0 ELSE v.lo

OldObject == ObjectOf(entry.store[fn.expr.n])
NewObject == ObjectOf(StoreNow[fn.expr.n])

\* the emitted text is the right-hand side with the variable's type, the
\* get and release of the variable, the set
SetShape ==
  LET rhs == translate_expr(ExprScope, SetTarget.type, fn.expr.a[1]).code
      scope == IF SetTarget.kind = "Local" THEN "local" ELSE "global"
      n == Len(tr.text)
  IN /\ n = Len(rhs) + 3
     /\ SubSeq(tr.text, 1, n - 3) = rhs
     /\ tr.text[n - 2] = Ins(scope \o ".get", SetTarget.n, SetTarget.i)
     /\ tr.text[n - 1] = Ins("call", rc_helper(SetTarget.type, "release"), 0)
     /\ tr.text[n] = Ins(scope \o ".set", SetTarget.n, SetTarget.i)

\* C20: the set of a heap-typed variable emits the right-hand side, then
\* get + release of the variable, then the set; when the code has run, every
\* object is counted once for each variable holding it (the old object lost
\* exactly the reference the variable held, the variable owns one reference
\* to the new value); with x = x the object's count never reaches zero
C20_SetReleasesOldContents ==
  /\ phase # "failed"
  /\ phase \in {"translated", "running"} => SetShape
  /\ phase = "running" =>
       /\ m.status # "trap"
       /\ (fn.expr.a[1] = GetVar(fn.expr.n) /\ OldObject # 0) =>
            entry.low[OldObject] >= 1
  /\ SetDone =>
       /\ m.stack = <<>>
       /\ \A o \in DOMAIN m.rc : m.rc[o] = Owners(StoreNow, tr.lscope, o)
       /\ \A v \in {"xs", "xL", "xa", "G"} :
            v # fn.expr.n => StoreNow[v] = entry.store[v]
       /\ (OldObject # 0 /\ NewObject # OldObject) =>
            m.rc[OldObject] = entry.rc0[OldObject] - 1

\* xs = G has run with xs and G holding different strings: the string xs
\* held is released, the string of G is shared
C20_Witness ==
  /\ SetDone /\ fn.expr = SetVar("xs", GetVar("G"))
  /\ entry.store.xs.lo = StrA /\ entry.store.G.lo = StrB
  /\ m.rc[StrA] < entry.rc0[StrA] /\ m.rc[StrB] = entry.rc0[StrB] + 1

\* ---------------------------------------------------------------------
\* Under SpecFunc: the local.set of a decl.
\* ---------------------------------------------------------------------
ReleaseHelpers == {"__WAC_str_release", "__WAC_list_release", "__WAC_id_release"}

\* line pc of the text is the local.set of a decl of a heap-typed local:
\* a set of an existing variable is preceded by the release of its contents
IsDeclSet(text, decls, pc) ==
  /\ pc > 1 /\ pc <= Len(text)
  /\ text[pc].op = "local.set"
  /\ text[pc].i >= 0 /\ text[pc].i < Len(decls)
  /\ IsHeap(decls[text[pc].i + 1].type)
  /\ ~(text[pc - 1].op = "call" /\ text[pc - 1].n \in ReleaseHelpers)

\* C21: whenever the local.set of a decl is about to execute, the local
\* holds its initial zero
C21_DeclSetFindsZero ==
  (phase = "running" /\ m.status = "run" /\ IsDeclSet(m.code, tr.lscope.decls, m.pc)) =>
    LocalOf(m, Key(m.code[m.pc].n, m.code[m.pc].i)) = V(0)

\* C22: the code of a successful translation with expected type void leaves
\* the operand stack as it found it
C22_StatementLeavesStackUnchanged ==
  (ExprDone /\ fn.etype = None) => m.stack = <<>>

\* ---------------------------------------------------------------------
\* SpecIs: `a is b` / `a is not b` on operands of one heap type, through
\* translate_expr and then on the machine, from the stores of SpecSet.
\* entry counts the release helpers called.
\* ---------------------------------------------------------------------
IsOperands ==
  [String |-> {GetVar("xs"), GetVar("G"), Str("a"), Call("f", <<GetVar("xs")>>)},
   List |-> {GetVar("xL")},
   Id |-> {GetVar("xa")}]

IsInit ==
  /\ \E t \in {"String", "List", "Id"} : \E l \in IsOperands[t] : \E r \in IsOperands[t] :
       \E op \in {"Is", "IsNot"} : \E et \in {"Bool", None} :
         fn = [expr |-> Binop(op, l, r), etype |-> et, type |-> t]
  /\ phase = "start"
  /\ tr = NullTr
  /\ entry = NullEntry
  /\ m = NullM

IsTranslate ==
  /\ phase = "start"
  /\ LET st == translate_expr(ExprScope, fn.etype, fn.expr)
     IN /\ tr' = [err |-> st.err, lscope |-> st, text |-> st.code]
        /\ phase' = IF st.err = Ok THEN "translated" ELSE "failed"
  /\ UNCHANGED <<fn, entry, m>>

IsEnter ==
  /\ phase = "translated"
  /\ \E store \in SetStores :
       LET rc0 == [o \in {StrA, StrB, ListL} \cup Literals(tr.lscope) |->
                     Owners(store, tr.lscope, o)]
       IN /\ entry' = [args |-> <<>>, rc0 |-> rc0, store |-> store, released |-> 0]
          /\ m' = Machine(tr.text, ExprFunctions, rc0, SetLocals(store),
                          ("G" :> store.G), MaxTrue, 0, -1)
  /\ phase' = "running"
  /\ UNCHANGED <<fn, tr>>

IsStep ==
  /\ phase = "running"
  /\ m.status = "run"
  /\ m' \in step(m, StrA)
  /\ entry' = [entry EXCEPT !.released =
                 IF m.code[m.pc].op = "call" /\ m.code[m.pc].n \in ReleaseHelpers
                 THEN @ + 1 ELSE @]
  /\ UNCHANGED <<fn, phase, tr>>

IsNext == IsTranslate \/ IsEnter \/ IsStep

SpecIs == IsInit /\ [][IsNext]_vars

IsDone == phase = "running" /\ m.status = "done"

\* release(.., DropPolicy::Keep) of a heap type: dup, call of the helper
ReleaseKeepLines(t) ==
  LET tmp == IF wasm(t) = "i32" THEN "$rt_tmp_dup_i32" ELSE "$rt_tmp_dup_i64"
  IN << Ins("local.tee", tmp, -1), Ins("local.get", tmp, -1),
        Ins("call", rc_helper(t, "release"), 0) >>

\* the emitted text: left, release, right, release, eq / ne, and a drop
\* when no value is expected
IsShapeOf(t, left, right) ==
  /\ Len(tr.text) = Len(right) + 3 + 1 + (IF fn.etype = None THEN 1 ELSE 0)
  /\ SubSeq(tr.text, 1, Len(left)) = left
  /\ SubSeq(tr.text, Len(left) + 1, Len(left) + 3) = ReleaseKeepLines(t)
  /\ SubSeq(tr.text, 1, Len(right)) = right
  /\ SubSeq(tr.text, Len(right) + 1, Len(right) + 3) = ReleaseKeepLines(t)
  /\ tr.text[Len(right) + 4] = TypedOp(BinopName(fn.expr.n), t)
  /\ \A j \in (Len(left) + 4)..Len(right) :
       ~(tr.text[j].op = "call" /\ tr.text[j].n \in ReleaseHelpers)

\* left is the scope after the left operand; the right operand follows
\* the release of the left
IsShapeAfter(t, left) ==
  IsShapeOf(t, left.code, translate_expr(release(left, t, "Keep"), t, fn.expr.a[2]).code)

IsShape == IsShapeAfter(fn.type, translate_expr(ExprScope, fn.type, fn.expr.a[1]))

\* C23: `is` / `is not` on str, list or id operands emits left, release of
\* the left (bits kept), right, release of the right (bits kept), then the
\* eq / ne; a run releases each operand exactly once and leaves every
\* reference count as it was
C23_IsReleasesBothOperands ==
  /\ phase # "failed"
  /\ phase \in {"translated", "running"} => IsShape
  /\ phase = "running" => m.status # "trap" /\ entry.released <= 2
  /\ IsDone =>
       /\ entry.released = 2
       /\ \A o \in DOMAIN m.rc : m.rc[o] = entry.rc0[o]
       /\ Len(m.stack) = IF fn.etype = None THEN 0 ELSE 1

\* xs is G has run with both holding the same string: the answer is true
C23_Witness ==
  /\ IsDone /\ fn.expr = Binop("Is", GetVar("xs"), GetVar("G")) /\ fn.etype = "Bool"
  /\ entry.store.xs.lo = StrA /\ entry.store.G.lo = StrA
  /\ m.stack = <<V(1)>> /\ entry.released = 2

\* ---------------------------------------------------------------------
\* SpecCommon: common_type applied to every pair of types, both ways round
\* ---------------------------------------------------------------------
CommonInit ==
  /\ \E a \in Types : \E b \in Types : fn = [a |-> a, b |-> b]
  /\ phase = "start"
  /\ tr = NullTr
  /\ entry = NullEntry
  /\ m = NullM

CommonType ==
  /\ phase = "start"
  /\ tr' = [err |-> Ok, ab |-> common_type(fn.a, fn.b), ba |-> common_type(fn.b, fn.a)]
  /\ phase' = "done"
  /\ UNCHANGED <<fn, entry, m>>

CommonNext == CommonType

SpecCommon == CommonInit /\ [][CommonNext]_vars

\* C24: common_type(A, B) is A when A = B, f32 when {A, B} = {i32, f32},
\* and an error otherwise; with the arguments exchanged it fails as well or
\* returns the same type
C24_CommonTypeSymmetric ==
  phase = "done" =>
    /\ fn.a = fn.b => tr.ab.ok /\ tr.ab.t = fn.a
    /\ {fn.a, fn.b} = {"I32", "F32"} => tr.ab.ok /\ tr.ab.t = "F32"
    /\ (fn.a # fn.b /\ {fn.a, fn.b} # {"I32", "F32"}) => ~tr.ab.ok
    /\ tr.ab.ok = tr.ba.ok
    /\ tr.ab.ok => tr.ab.t = tr.ba.t

\* f32 with i32, the pair the one-way rule would miss
C24_Witness ==
  phase = "done" /\ fn.a = "F32" /\ fn.b = "I32" /\ tr.ab = GOk("F32") /\ tr.ba = GOk("F32")

\* ---------------------------------------------------------------------
\* SpecScope: a LocalScope over the globals of SpecExpr (constant K,
\* global G) driven by push, pop, decl and get, and by translate_expr on
\* statements that open blocks, declare and assign.  x is no global.
\* ---------------------------------------------------------------------
MaxDepth == 3
MaxDecls == 3

ScopeNames == {"x", "K", "G"}
ScopeTypes == {"I32", "String"}

DeclInt(n, x) == DeclVar(n, "I32", Lit("Int", x))
SetInt(n, x) == SetVar(n, Lit("Int", x))

DeclThenSet(n) == Block(<<DeclInt(n, 1), SetInt(n, 3)>>)
DeclInnerThenSet(n) == Block(<<DeclInt(n, 1), Block(<<DeclInt(n, 2)>>), SetInt(n, 3)>>)
InnerThenSet(n) == Block(<<Block(<<DeclInt(n, 2)>>), SetInt(n, 3)>>)

ScopeExprs ==
  UNION { { DeclInt(n, 1), SetInt(n, 3), DeclThenSet(n), DeclInnerThenSet(n), InnerThenSet(n),
            While(Lit("Bool", 0), Block(<<DeclInt(n, 1)>>)),
            If(Lit("Bool", 1), Block(<<DeclInt(n, 1)>>), Block(<<>>)) } : n \in ScopeNames }

ScopeInit ==
  /\ fn = [name |-> "main"]
  /\ phase = "scope"
  /\ tr = [err |-> Ok, lscope |-> LocalScope_new(ExprGscope, Out_new)]
  /\ entry = [op |-> "new"]
  /\ m = NullM

ScopePush ==
  /\ phase = "scope"
  /\ Len(tr.lscope.locals) < MaxDepth
  /\ tr' = [tr EXCEPT !.lscope = push(@)]
  /\ entry' = [op |-> "push"]
  /\ UNCHANGED <<fn, phase, m>>

\* the map LocalScope::new starts with is never popped by translate_expr
ScopePop ==
  /\ phase = "scope"
  /\ Len(tr.lscope.locals) > 1
  /\ tr' = [tr EXCEPT !.lscope = pop(@)]
  /\ entry' = [op |-> "pop"]
  /\ UNCHANGED <<fn, phase, m>>

ScopeDecl ==
  /\ phase = "scope"
  /\ Len(tr.lscope.decls) < MaxDecls
  /\ \E n \in ScopeNames : \E t \in ScopeTypes :
       /\ tr' = [tr EXCEPT !.lscope = decl(@, n, t)]
       /\ entry' = [op |-> "decl", name |-> n]
  /\ UNCHANGED <<fn, phase, m>>

ScopeGet ==
  /\ phase = "scope"
  /\ \E n \in ScopeNames :
       entry' = [op |-> "get", name |-> n, found |-> get(tr.lscope, n)]
  /\ UNCHANGED <<fn, phase, tr, m>>

\* translate_expr in statement position; an error ends the translation
ScopeTranslate ==
  /\ phase = "scope"
  /\ Len(tr.lscope.decls) + 2 <= MaxDecls
  /\ \E e \in ScopeExprs :
       LET st == translate_expr(tr.lscope, None, e)
       IN /\ entry' = [op |-> "translate", expr |-> e, before |-> tr.lscope, after |-> st]
          /\ tr' = IF st.err = Ok THEN [tr EXCEPT !.lscope = [st EXCEPT !.code = <<>>]]
                   ELSE [tr EXCEPT !.err = st.err]
          /\ phase' = IF st.err = Ok THEN "scope" ELSE "failed"
  /\ UNCHANGED <<fn, m>>

ScopeNext == ScopePush \/ ScopePop \/ ScopeDecl \/ ScopeGet \/ ScopeTranslate

SpecScope == ScopeInit /\ [][ScopeNext]_vars

\* the local maps that declare the name, counted from the outermost
DeclaringMaps(st, n) == {d \in 1..Len(st.locals) : n \in DOMAIN st.locals[d]}

Max(S) == CHOOSE x \in S : \A y \in S : y <= x

\* the declaration of the innermost map that has the name, else the
\* global scope's entry, else nothing
Innermost(st, n) ==
  IF DeclaringMaps(st, n) # {} THEN st.locals[Max(DeclaringMaps(st, n))][n]
  ELSE IF n \in DOMAIN st.g.varmap THEN st.g.varmap[n]
  ELSE NoEntry

Translated == phase = "scope" /\ entry.op = "translate"

OpensBlock(e) == e.k \in {"Block", "While", "If"}

LastSet(st) == st.code[Len(st.code)]

\* C25: a lookup returns the declaration of the innermost map that has the
\* name and reaches the globals only when no local map has it; what a
\* block declares is gone after the block, and a successful translate_expr
\* leaves the scope stack as deep as it found it
C25_LookupInnermostAndBlockScoped ==
  /\ phase = "scope" =>
       \A n \in ScopeNames : get(tr.lscope, n) = Innermost(tr.lscope, n)
  /\ (phase = "scope" /\ entry.op = "get") => entry.found = Innermost(tr.lscope, entry.name)
  /\ Translated =>
       /\ Len(entry.after.locals) = Len(entry.before.locals)
       /\ OpensBlock(entry.expr) => entry.after.locals = entry.before.locals
       /\ entry.expr \in {DeclThenSet(n) : n \in ScopeNames}
            => LastSet(entry.after) = Ins("local.set", entry.expr.a[1].n, Len(entry.before.decls))
       /\ entry.expr \in {DeclInnerThenSet(n) : n \in ScopeNames}
            => LastSet(entry.after) = Ins("local.set", entry.expr.a[1].n, Len(entry.before.decls))
       /\ entry.expr \in {InnerThenSet(n) : n \in ScopeNames}
            => /\ Innermost(entry.before, entry.expr.a[2].n).kind # "Constant"
               /\ LastSet(entry.after).i # Len(entry.before.decls)

\* a local K declared in an inner map shadows the constant K, and the
\* block that declared and assigned a K of its own has been left
C25_Witness ==
  /\ Translated /\ entry.expr = DeclInnerThenSet("K")
  /\ Len(entry.before.locals) = 2 /\ "K" \in DOMAIN entry.before.locals[2]
  /\ get(tr.lscope, "K") = entry.before.locals[2]["K"]
  /\ Len(entry.after.decls) = Len(entry.before.decls) + 2

\* ---------------------------------------------------------------------
\* SpecLoop: the translation of the while loops of one function, followed
\* step by step: LoopOpen is Expr::While up to the loop header, LoopClose
\* is its tail, and any nesting of the two is the walk of some body.
\* LoopTranslate translates a whole loop nest in one call of
\* translate_expr at the current position.  entry keeps the loops that
\* are open and every label handed out.
\* ---------------------------------------------------------------------
MaxLoops == 6
MaxNest == 3

LoopCond == Lit("Bool", 0)
Loop(body) == While(LoopCond, Block(body))

LoopNests ==
  { Loop(<<>>), Loop(<<Loop(<<>>)>>), Loop(<<Loop(<<>>), Loop(<<>>)>>),
    Loop(<<Loop(<<Loop(<<>>)>>)>>) }

RECURSIVE CountLoops(_)
CountLoops(e) ==
  IF e.k # "While" THEN 0
  ELSE LET body == e.a[2].a
           F[i \in 0..Len(body)] == IF i = 0 THEN 0 ELSE F[i - 1] + CountLoops(body[i])
       IN 1 + F[Len(body)]

LoopInit ==
  /\ fn = [name |-> "main"]
  /\ phase = "scope"
  /\ tr = [err |-> Ok, lscope |-> LocalScope_new(ExprGscope, Out_new)]
  /\ entry = [op |-> "new", open |-> <<>>, issued |-> <<>>]
  /\ m = NullM

\* Expr::While: two new labels, pushed, and the header written; the
\* condition and i32.eqz / br_if follow before the body
LoopOpen ==
  /\ phase = "scope"
  /\ Len(entry.open) < MaxNest
  /\ tr.lscope.nlabels + 2 <= 2 * MaxLoops
  /\ LET st == tr.lscope
         break_label == st.nlabels
         continue_label == st.nlabels + 1
         s0 == new_label_id(new_label_id(st))
         s1 == [s0 EXCEPT !.break_labels = Append(@, break_label),
                          !.continue_labels = Append(@, continue_label)]
         s2 == writeln(writeln(s1, Ins("block", "$lbl", break_label)),
                       Ins("loop", "$lbl", continue_label))
         s3 == translate_expr(s2, "Bool", LoopCond)
         s4 == writeln(writeln(s3, Ins("i32.eqz", "", 0)), Ins("br_if", "$lbl", break_label))
     IN /\ tr' = [tr EXCEPT !.lscope = s4]
        /\ entry' = [op |-> "open",
                     open |-> Append(entry.open,
                                     [break_label |-> break_label,
                                      continue_label |-> continue_label,
                                      break_labels |-> st.break_labels,
                                      continue_labels |-> st.continue_labels]),
                     issued |-> entry.issued \o <<break_label, continue_label>>]
  /\ UNCHANGED <<fn, phase, m>>

\* Expr::While after the body: the branch back, the close, the two pops
LoopClose ==
  /\ phase = "scope"
  /\ entry.open # <<>>
  /\ LET s5 == tr.lscope
         top == entry.open[Len(entry.open)]
         s6 == writeln(writeln(s5, Ins("br", "$lbl", top.continue_label)), Ins("))", "", 0))
     IN /\ tr' = [tr EXCEPT !.lscope =
                    [s6 EXCEPT !.break_labels = SubSeq(@, 1, Len(@) - 1),
                               !.continue_labels = SubSeq(@, 1, Len(@) - 1)]]
        /\ entry' = [op |-> "close", open |-> SubSeq(entry.open, 1, Len(entry.open) - 1),
                     issued |-> entry.issued, closed |-> top]
  /\ UNCHANGED <<fn, phase, m>>

\* the labels the text between two lengths defines
LabelsWritten(code, from) ==
  << >> \o [j \in 1..Cardinality({i \in (from + 1)..Len(code) : code[i].op \in {"block", "loop"}}) |->
              code[CHOOSE i \in (from + 1)..Len(code) :
                     /\ code[i].op \in {"block", "loop"}
                     /\ Cardinality({h \in (from + 1)..i : code[h].op \in {"block", "loop"}}) = j].i]

\* a statement of the current body that is a loop nest, in one call
LoopTranslate ==
  /\ phase = "scope"
  /\ \E e \in LoopNests :
       /\ tr.lscope.nlabels + 2 * CountLoops(e) <= 2 * MaxLoops
       /\ LET st == translate_expr(tr.lscope, None, e)
          IN /\ tr' = [tr EXCEPT !.lscope = st, !.err = st.err]
             /\ entry' = [op |-> "translate", open |-> entry.open, expr |-> e,
                          before |-> tr.lscope,
                          issued |-> entry.issued \o LabelsWritten(st.code, Len(tr.lscope.code))]
  /\ UNCHANGED <<fn, phase, m>>

LoopNext == LoopOpen \/ LoopClose \/ LoopTranslate

SpecLoop == LoopInit /\ [][LoopNext]_vars

StrictlyIncreasing(s) == \A i \in 1..Len(s) : \A j \in 1..Len(s) : i < j => s[i] < s[j]

Last(s) == s[Len(s)]

\* C26: the label ids of one function are strictly increasing, so the
\* break and continue labels of all its loops are distinct; inside a loop
\* the tops of the two stacks are that loop's labels, and after the loop
\* the stacks are what they were before it
C26_LoopLabelsDistinctAndStacked ==
  /\ tr.err = Ok
  /\ StrictlyIncreasing(entry.issued)
  /\ Len(entry.issued) = tr.lscope.nlabels
  /\ Len(tr.lscope.break_labels) = Len(entry.open)
  /\ Len(tr.lscope.continue_labels) = Len(entry.open)
  /\ entry.open # <<>> =>
       /\ Last(tr.lscope.break_labels) = Last(entry.open).break_label
       /\ Last(tr.lscope.continue_labels) = Last(entry.open).continue_label
  /\ entry.op = "close" =>
       /\ tr.lscope.break_labels = entry.closed.break_labels
       /\ tr.lscope.continue_labels = entry.closed.continue_labels
  /\ entry.op = "translate" =>
       /\ tr.lscope.break_labels = entry.before.break_labels
       /\ tr.lscope.continue_labels = entry.before.continue_labels
       /\ tr.lscope.nlabels = entry.before.nlabels + 2 * CountLoops(entry.expr)

\* a loop with two sibling loops in its body was translated inside an open
\* loop, after an earlier loop of the function had been closed
C26_Witness ==
  /\ entry.op = "translate" /\ entry.expr = Loop(<<Loop(<<>>), Loop(<<>>)>>)
  /\ Len(entry.open) = 1 /\ entry.open[1].break_label = 2
  /\ entry.issued = <<0, 1, 2, 3, 4, 5, 6, 7, 8, 9>>

\* C27: whenever guess_type answers a type T for an expression,
\* translate_expr with expected type T succeeds on it
C27_GuessAgreesWithTranslate ==
  (ExprTranslated /\ guess_type(ExprScope, fn.expr).ok
     /\ fn.etype = guess_type(ExprScope, fn.expr).t)
    => tr.err = Ok

\* ---------------------------------------------------------------------
\* Calls of traced functions (tr/fcall.rs).  The stack of frame records
\* lies below the data: $rt_stack_top starts at STACK_START and the
\* records end at STACK_END.
\* ---------------------------------------------------------------------
StackUnits == 1
STACK_BYTES == 16 * StackUnits
STACK_START == RESERVED_BYTES
STACK_END == STACK_START + STACK_BYTES

SourceName == "a"

write_lines(st, lines) == IF st.err # Ok THEN st ELSE [st EXCEPT !.code = @ \o lines]

\* variant: the test lets a full stack through
stack_overflow_check_late(st) ==
  write_lines(st, << Ins("global.get", "$rt_stack_top", 0), Ins("global.get", "$rt_stack_end", 0),
                     Ins("i32.gt_s", "", 0), Ins("if", "", 0),
                     Ins("call", "__WAC_stack_overflow", 0), Ins("else", "", 0),
                     Ins("end", "", 0) >>)

\* check for stack overflow
stack_overflow_check(st) ==
  write_lines(st, << Ins("global.get", "$rt_stack_top", 0), Ins("global.get", "$rt_stack_end", 0),
                     Ins("i32.ge_s", "", 0), Ins("if", "", 0),
                     Ins("call", "__WAC_stack_overflow", 0), Ins("else", "", 0),
                     Ins("end", "", 0) >>)

\* record the file and the line of the call at $rt_stack_top
record_frame(st, ptr, lineno) ==
  write_lines(st, << Ins("global.get", "$rt_stack_top", 0), Ins("const", "i32", ptr),
                     Ins("i32.store", "", 0),
                     Ins("global.get", "$rt_stack_top", 0), Ins("const", "i32", 4),
                     Ins("i32.add", "", 0), Ins("const", "i32", lineno),
                     Ins("i32.store", "", 0) >>)

\* increment / pop the stack pointer
move_stack_top(st, by) ==
  write_lines(st, << Ins("global.get", "$rt_stack_top", 0), Ins("const", "i32", by),
                     Ins("i32.add", "", 0), Ins("global.set", "$rt_stack_top", 0) >>)

\* translate_fcall for a FunctionEntry::Function whose type has trace set,
\* called from a traced function; e.v is the line of the call
traced_call(st, ptr, etype, return_type, e) ==
  auto_cast(move_stack_top(writeln(move_stack_top(record_frame(st, ptr, e.v), 8),
                                   Ins("call", e.n, 0)),
                           0 - 8),
            return_type, etype)

traced_call_at(st, etype, return_type, e) ==
  traced_call(st, st.intern_cstr_map[SourceName], etype, return_type, e)

traced_call_checked(st, etype, return_type, e) ==
  IF st.err # Ok THEN st
  ELSE traced_call_at(intern_cstr(st, SourceName), etype, return_type, e)

translate_fcall_traced(st, etype, e) ==
  IF ~getf_found(st, e.n) THEN Fail(st, "NotFound")
  ELSE IF Len(e.a) # Len(getf(st, e.n).parameter_types) THEN Fail(st, "args")
  ELSE traced_call_checked(
         stack_overflow_check(translate_args(st, getf(st, e.n).parameter_types, e.a, 1)),
         etype, getf(st, e.n).return_type, e)

\* ---------------------------------------------------------------------
\* SpecTrace: two traced functions a and b whose bodies are calls of a
\* and b (recursion included), and a call of one of them from the start
\* code; the emitted code runs with a stack of return positions.
\* ---------------------------------------------------------------------
MaxCalls == 2

TraceFns == {"a", "b"}
TraceFunctions == ("a" :> FunctionType(<<>>, None)) @@ ("b" :> FunctionType(<<>>, None))
TraceGscope == GlobalScope_new(TraceFunctions)

TracedCall(n, line) == [Call(n, <<>>) EXCEPT !.v = line]

TraceBodies == UNION { [1..n -> TraceFns] : n \in 0..MaxCalls }

RECURSIVE translate_calls(_, _, _)
translate_calls(st, callees, i) ==
  IF i > Len(callees) THEN st
  ELSE translate_calls(translate_fcall_traced(st, None, TracedCall(callees[i], i)), callees, i + 1)

TraceInit ==
  /\ \E a \in TraceBodies : \E b \in TraceBodies : \E f \in TraceFns :
       fn = [a |-> a, b |-> b, main |-> f]
  /\ phase = "start"
  /\ tr = NullTr
  /\ entry = NullEntry
  /\ m = NullM

\* the bodies of a and b and the start code, one after the other with
\* the same Out
TraceTexts(sa, sb, sm) ==
  [err |-> IF sa.err # Ok THEN sa.err ELSE IF sb.err # Ok THEN sb.err ELSE sm.err,
   lscope |-> sm, text |-> sm.code, bodies |-> [a |-> sa.code, b |-> sb.code]]

TraceStart(sa, sb, f) ==
  TraceTexts(sa, sb, translate_calls(LocalScope_new(TraceGscope, OutOf(sb)), <<f>>, 1))

TraceBody(sa, b, f) ==
  TraceStart(sa, translate_calls(LocalScope_new(TraceGscope, OutOf(sa)), b, 1), f)

TraceTranslate ==
  /\ phase = "start"
  /\ tr' = TraceBody(translate_calls(LocalScope_new(TraceGscope, Out_new), fn.a, 1), fn.b, fn.main)
  /\ phase' = IF tr'.err = Ok THEN "translated" ELSE "failed"
  /\ UNCHANGED <<fn, entry, m>>

\* the globals as Out::get declares them, and an empty record area
TraceEnter ==
  /\ phase = "translated"
  /\ m' = [code |-> tr.text, pc |-> 1, stack |-> <<>>, locals |-> EmptyMap,
           globals |-> ("$rt_stack_top" :> V(STACK_START)) @@ ("$rt_stack_end" :> V(STACK_END)),
           rc |-> EmptyMap, fns |-> TraceFunctions, fuel |-> 0, status |-> "run",
           epi_first |-> 0, epi_last |-> -1, epi_hits |-> 0, mem |-> EmptyMap]
  /\ entry' = [args |-> <<>>, op |-> "enter", frames |-> <<>>, deepest |-> 0, left |-> 0]
  /\ phase' = "running"
  /\ UNCHANGED <<fn, tr>>

AtCall(names) ==
  /\ phase = "running" /\ m.status = "run"
  /\ m.pc <= Len(m.code)
  /\ m.code[m.pc].op = "call" /\ m.code[m.pc].n \in names

\* an instruction other than a call
TraceStep ==
  /\ phase = "running" /\ m.status = "run"
  /\ m.pc <= Len(m.code)
  /\ m.code[m.pc].op # "call"
  /\ m' \in exec(m, 0)
  /\ entry' = [entry EXCEPT !.op = "step"]
  /\ UNCHANGED <<fn, phase, tr>>

\* call $f_a / $f_b: the body of the callee runs
TraceCall ==
  /\ AtCall(TraceFns)
  /\ entry' = [entry EXCEPT !.op = "call",
                            !.frames = Append(@, [code |-> m.code, pc |-> m.pc + 1,
                                                  top |-> GlobalOf(m, "$rt_stack_top").lo]),
                            !.deepest = IF Len(entry.frames) + 1 > @
                                        THEN Len(entry.frames) + 1 ELSE @]
  /\ m' = [m EXCEPT !.code = tr.bodies[m.code[m.pc].n], !.pc = 1]
  /\ UNCHANGED <<fn, phase, tr>>

\* the end of a body: back to the caller; the end of the start code: done
TraceReturn ==
  /\ phase = "running" /\ m.status = "run"
  /\ m.pc > Len(m.code)
  /\ IF entry.frames = <<>>
     THEN /\ m' = [m EXCEPT !.status = "done"]
          /\ entry' = [entry EXCEPT !.op = "done"]
     ELSE LET f == entry.frames[Len(entry.frames)]
          IN /\ m' = [m EXCEPT !.code = f.code, !.pc = f.pc]
             /\ entry' = [entry EXCEPT !.op = "return",
                                       !.frames = SubSeq(@, 1, Len(@) - 1),
                                       !.left = f.top]
  /\ UNCHANGED <<fn, phase, tr>>

\* call $f___WAC_stack_overflow: the handler does not return
TraceOverflow ==
  /\ AtCall({"__WAC_stack_overflow"})
  /\ m' = [m EXCEPT !.status = "overflow"]
  /\ entry' = [entry EXCEPT !.op = "overflow"]
  /\ UNCHANGED <<fn, phase, tr>>

TraceNext ==
  TraceTranslate \/ TraceEnter \/ TraceStep \/ TraceCall \/ TraceReturn \/ TraceOverflow

SpecTrace == TraceInit /\ [][TraceNext]_vars

StackTop == GlobalOf(m, "$rt_stack_top").lo

FilePtr == tr.lscope.intern_cstr_map[SourceName]

\* C28: a traced call tests $rt_stack_top >= $rt_stack_end before it
\* writes its record at $rt_stack_top, adds 8 before the call and takes 8
\* off after it: no record is written at or beyond $rt_stack_end, each
\* open call has its record below the top, a callee returns with the top
\* it was entered with, and when all calls have returned the top is where
\* it started
C28_TraceStackBounded ==
  /\ phase # "failed"
  /\ phase = "running" =>
       /\ m.status # "trap"
       /\ \A a \in DOMAIN m.mem : a >= STACK_START /\ a + 4 <= STACK_END
       /\ \A k \in 1..Len(entry.frames) :
            /\ entry.frames[k].top = STACK_START + 8 * k
            /\ entry.frames[k].top <= STACK_END
            /\ m.mem[entry.frames[k].top - 8] = FilePtr
            /\ m.mem[entry.frames[k].top - 4] \in 1..MaxCalls
       /\ entry.op = "return" => StackTop = entry.left
       /\ entry.op = "overflow" => StackTop >= STACK_END
       /\ m.status = "done" => StackTop = STACK_START

\* every slot of the record area has been used by nested calls, and all
\* of them have returned
C28_Witness ==
  /\ phase = "running" /\ m.status = "done"
  /\ entry.deepest * 8 = STACK_BYTES
  /\ STACK_END - 4 \in DOMAIN m.mem
  /\ StackTop = STACK_START

\* ---------------------------------------------------------------------
\* SpecMatch: the matching operations of Parser (parser.rs) applied one
\* after another to a token sequence with names, a reserved name,
\* punctuation, a raw string and normal strings with and without escapes.
\* An error ends the parse.
\* ---------------------------------------------------------------------
MaxMatchToks == 3

RawStrings == {"r\"a\""}

\* the text between the quotes of each normal string token
NormalStringChars ==
  ("\"a\"" :> <<"a">>) @@ ("\"a\\n\"" :> <<"a", "\\", "n">>) @@ ("\"\\q\"" :> <<"\\", "q">>)

NormalStrings == DOMAIN NormalStringChars

Escapes ==
  ("n" :> "LF") @@ ("r" :> "CR") @@ ("t" :> "TAB") @@ ("0" :> "NUL")
  @@ ("\"" :> "\"") @@ ("'" :> "'") @@ ("\\" :> "\\")

\* resolve_escapes: State::Normal / State::Escape over the characters
RECURSIVE resolve_escapes_from(_, _, _, _)
resolve_escapes_from(s, i, state, ret) ==
  IF i > Len(s) THEN [ok |-> TRUE, s |-> ret]
  ELSE IF state = "Normal"
       THEN IF s[i] = "\\" THEN resolve_escapes_from(s, i + 1, "Escape", ret)
            ELSE resolve_escapes_from(s, i + 1, "Normal", Append(ret, s[i]))
       ELSE IF s[i] \in DOMAIN Escapes
            THEN resolve_escapes_from(s, i + 1, "Normal", Append(ret, Escapes[s[i]]))
            ELSE [ok |-> FALSE, s |-> <<s[i]>>]

resolve_escapes(s) == resolve_escapes_from(s, 1, "Normal", <<>>)

\* Parser::expect_string
expect_string(p) ==
  IF p.err # Ok THEN p
  ELSE CASE peek(p) \in RawStrings -> gettok(p)
         [] peek(p) \in NormalStrings ->
              LET q == gettok(p)
              IN IF resolve_escapes(NormalStringChars[peek(p)]).ok THEN q
                 ELSE [q EXCEPT !.err = "InvalidEscape"]
         [] OTHER -> InvalidToken(p, "String")

MatchTokens == {"x", "var", "("} \cup RawStrings \cup NormalStrings

MatchInit ==
  /\ \E n \in 0..MaxMatchToks : \E toks \in [1..n -> MatchTokens] : fn = [toks |-> toks]
  /\ phase = "matching"
  /\ tr = Parser_new(fn.toks)
  /\ entry = [op |-> "new", before |-> 1, ok |-> TRUE]
  /\ m = NullM

Matching == phase = "matching" /\ tr.i <= Len(tr.toks)

Matched(op, q, ok) ==
  /\ tr' = q
  /\ entry' = [op |-> op, before |-> tr.i, ok |-> ok]
  /\ phase' = IF q.err = Ok THEN "matching" ELSE "failed"
  /\ UNCHANGED <<fn, m>>

MatchConsume ==
  /\ Matching
  /\ \E tok \in MatchTokens : Matched("consume", consumed(tr, tok), peek(tr) = tok)

MatchExpect ==
  /\ Matching
  /\ \E tok \in MatchTokens : Matched("expect", expect(tr, tok), expect(tr, tok).err = Ok)

MatchExpectName ==
  /\ Matching
  /\ Matched("expect_name", expect_name(tr), expect_name(tr).err = Ok)

MatchExpectString ==
  /\ Matching
  /\ Matched("expect_string", expect_string(tr), expect_string(tr).err = Ok)

MatchNext == MatchConsume \/ MatchExpect \/ MatchExpectName \/ MatchExpectString

SpecMatch == MatchInit /\ [][MatchNext]_vars

\* C29: consume, expect, expect_name and expect_string advance the index
\* by exactly one token when they succeed and leave it where it was when
\* they fail
C29_FailedMatchKeepsPosition ==
  entry.op # "new" => tr.i = IF entry.ok THEN entry.before + 1 ELSE entry.before

\* ---------------------------------------------------------------------
\* SpecHelper: one function's scope through retain, release, raw_dup and
\* list literals in any order; entry keeps the helper locals as they were
\* before the last operation.
\* ---------------------------------------------------------------------
MaxOps == 3

WasmTypes == {"i32", "i64", "f32", "f64"}
DropPolicies == {"Keep", "Drop"}

List(items) == E("List", "", None, items)

ListLiterals ==
  { List(<<>>), List(<<Lit("Int", 1)>>), List(<<Str("a"), GetVar("xa")>>),
    List(<<List(<<GetVar("xs")>>)>>) }

HelperInit ==
  /\ fn = [name |-> "main"]
  /\ phase = "scope"
  /\ tr = [err |-> Ok, lscope |-> ExprScope]
  /\ entry = [op |-> "new", n |-> 0, before |-> EmptyMap]
  /\ m = NullM

Helped(op, st) ==
  /\ phase = "scope"
  /\ entry.n < MaxOps
  /\ tr' = [err |-> st.err, lscope |-> st]
  /\ entry' = [op |-> op, n |-> entry.n + 1, before |-> tr.lscope.helper_locals]
  /\ phase' = IF st.err = Ok THEN "scope" ELSE "failed"
  /\ UNCHANGED <<fn, m>>

HelperRetain ==
  \E t \in Types : \E dp \in DropPolicies : Helped("retain", retain(tr.lscope, t, dp))

HelperRelease ==
  \E t \in Types : \E dp \in DropPolicies : Helped("release", release(tr.lscope, t, dp))

HelperRawDup ==
  \E wt \in WasmTypes : Helped("raw_dup", raw_dup(tr.lscope, wt))

HelperList ==
  \E e \in ListLiterals : \E et \in {"List", "Id"} :
    Helped("list", translate_expr(tr.lscope, et, e))

HelperNext == HelperRetain \/ HelperRelease \/ HelperRawDup \/ HelperList

SpecHelper == HelperInit /\ [][HelperNext]_vars

DupName(wt) ==
  CASE wt = "i32" -> "$rt_tmp_dup_i32"
    [] wt = "i64" -> "$rt_tmp_dup_i64"
    [] wt = "f32" -> "$rt_tmp_dup_f32"
    [] wt = "f64" -> "$rt_tmp_dup_f64"

\* C30: the assertions of LocalScope::helper hold through any sequence of
\* retain, release, raw_dup and list literals: a helper name keeps the
\* type it was first given, $rt_tmp_dup_<t> is bound to the type of wasm
\* type t, and every helper name starts with $rt_
C30_HelperTypesStable ==
  /\ tr.err # "panic"
  /\ \A name \in DOMAIN tr.lscope.helper_locals :
       /\ starts_with_rt(name)
       /\ \E wt \in WasmTypes :
            /\ name = DupName(wt)
            /\ tr.lscope.helper_locals[name] = wac(wt)
            /\ wasm(tr.lscope.helper_locals[name]) = wt
  /\ \A name \in DOMAIN entry.before :
       /\ name \in DOMAIN tr.lscope.helper_locals
       /\ tr.lscope.helper_locals[name] = entry.before[name]

\* a str was released and an id retained with their bits kept, and a list
\* literal followed: both dup locals are bound, each with its own type
C30_Witness ==
  /\ phase = "scope" /\ entry.op = "list" /\ entry.n = 3
  /\ entry.before = ("$rt_tmp_dup_i32" :> "I32") @@ ("$rt_tmp_dup_i64" :> "I64")
  /\ tr.lscope.helper_locals = entry.before
====
